---------------------------- MODULE Spec2Model ----------------------------
(***************************************************************************)
(* Backtesting service of the Tradebot repository.                         *)
(*                                                                         *)
(* src/server/services/backtestService.ts holds two copies of the service  *)
(* (lines 1-496 and lines 498-975).  Both are modelled; `copy` says which  *)
(* one a behaviour runs.  Definitions ending in 1 model the first copy,    *)
(* definitions ending in 2 the second.                                     *)
(*                                                                         *)
(* Numbers.  Prices and capital are integers here.  Every quotient the     *)
(* code computes (drawdown, win rate, percentages) is kept as an exact     *)
(* fraction <<numerator, denominator>>; a denominator of 0 stands for the  *)
(* NaN / Infinity a division by zero gives in the code.  The indicator     *)
(* library computes on fractions too: exactly when `significand` is 0, and *)
(* with the result of every operation rounded to that many significant     *)
(* bits otherwise, as floating-point arithmetic rounds it to 53.           *)
(* Dates are bar numbers 1, 2, ...; `new Date()` reads `clock`.  In the   *)
(* runBacktest part dates are day numbers, day 0 being a Sunday.          *)
(* A trade's profit is <<>> for null and <<v>> for the number v.           *)
(***************************************************************************)
EXTENDS Integers, Sequences, FiniteSets, TLC

\* ------------------------------------------------------------------ bounds

\* Longest freely chosen part of an input sequence.
MaxTail == 3

\* Close prices the inputs are drawn from.
Prices == {1, 3}

\* Initial capital of a simulation run (positive).
Capitals == {3, 10}

\* simulateTrades (second copy) skips the bars with index < 10.
SkipBars == 10

\* ----------------------------------------------------------------- helpers

Null == <<>>

Some(v) == <<v>>

\* The wall clock: what `new Date()` returns.
VARIABLE clock

\* The significant bits a number of the indicator library keeps; 0 when the
\* arithmetic is exact.
VARIABLE significand

Now == clock

\* Fractions <<n, d>>, d > 0 unless the code divided by zero.
Zero == <<0, 1>>

Frac(n, d) == <<n, d>>

\* a > b for fractions with positive denominators.
RatGT(a, b) == a[1] * b[2] > b[1] * a[2]

\* Math.floor(a / b) for b > 0.
Floor(a, b) == a \div b

Last(s) == s[Len(s)]

\* Sequences over S of length 0..n.
SeqUpTo(S, n) == UNION {[1..k -> S] : k \in 0..n}

\* -------------------------------------------- simulateTrades, first copy

\* One element of the `signals` argument.
Signal1(date, type, price) == [date |-> date, type |-> type, price |-> price]

\* Math.floor(capital / signal.price)
BuyQuantity1Over(capital, price) == Floor(capital, price) + 1

BuyQuantity1(capital, price) == Floor(capital, price)

\* The locals of simulateTrades after their declarations.
Sim1Init(signals, initialCapital) ==
    [capital       |-> initialCapital,
     position      |-> 0,
     entryPrice    |-> 0,
     trades        |-> <<>>,
     maxDrawdown   |-> Zero,
     peak          |-> initialCapital,
     winningTrades |-> 0,
     totalTrades   |-> 0,
     equityCurve   |-> << [date   |-> IF Len(signals) > 0 THEN signals[1].date ELSE Now,
                           equity |-> initialCapital] >>]

\* The BUY branch of the loop body.
Sim1Buy(s, signal) ==
    LET quantity == BuyQuantity1(s.capital, signal.price)
        cost     == quantity * signal.price
    IN  IF quantity > 0
        THEN [s EXCEPT !.capital     = s.capital - cost,
                       !.position    = quantity,
                       !.entryPrice  = signal.price,
                       !.trades      = Append(@, [date |-> signal.date, type |-> "BUY",
                                                  price |-> signal.price,
                                                  quantity |-> quantity, profit |-> Null]),
                       !.equityCurve = Append(@, [date |-> signal.date,
                                                  equity |-> (s.capital - cost)
                                                             + quantity * signal.price])]
        ELSE s

\* The SELL branch of the loop body.
Sim1SellZeroWins(s, signal) ==
    LET sellValue == s.position * signal.price
        profit    == sellValue - s.position * s.entryPrice
        capital   == s.capital + sellValue
        drawdown  == Frac((s.peak - capital) * 100, s.peak)
    IN  [s EXCEPT !.capital       = capital,
                  !.trades        = Append(@, [date |-> signal.date, type |-> "SELL",
                                               price |-> signal.price,
                                               quantity |-> s.position,
                                               profit |-> Some(profit)]),
                  !.winningTrades = IF profit >= 0 THEN @ + 1 ELSE @,
                  !.totalTrades   = @ + 1,
                  !.position      = 0,
                  !.entryPrice    = 0,
                  !.equityCurve   = Append(@, [date |-> signal.date, equity |-> capital]),
                  !.peak          = IF capital > s.peak THEN capital ELSE @,
                  !.maxDrawdown   = IF capital > s.peak THEN @
                                    ELSE IF RatGT(drawdown, @) THEN drawdown ELSE @]

\* The SELL branch of the loop body, with its peak / drawdown update.
Sim1Sell(s, signal) ==
    LET sellValue == s.position * signal.price
        profit    == sellValue - s.position * s.entryPrice
        capital   == s.capital + sellValue
        drawdown  == Frac((s.peak - capital) * 100, s.peak)
    IN  [s EXCEPT !.capital       = capital,
                  !.trades        = Append(@, [date |-> signal.date, type |-> "SELL",
                                               price |-> signal.price,
                                               quantity |-> s.position,
                                               profit |-> Some(profit)]),
                  !.winningTrades = IF profit > 0 THEN @ + 1 ELSE @,
                  !.totalTrades   = @ + 1,
                  !.position      = 0,
                  !.entryPrice    = 0,
                  !.equityCurve   = Append(@, [date |-> signal.date, equity |-> capital]),
                  !.peak          = IF capital > s.peak THEN capital ELSE @,
                  !.maxDrawdown   = IF capital > s.peak THEN @
                                    ELSE IF RatGT(drawdown, @) THEN drawdown ELSE @]

\* One iteration of `for (const signal of signals)`.
Sim1BarNoGuard(s, signal) ==
    IF signal.type = "BUY" THEN Sim1Buy(s, signal)
    ELSE IF signal.type = "SELL" /\ s.position > 0 THEN Sim1Sell(s, signal)
    ELSE s

Sim1Bar(s, signal) ==
    IF signal.type = "BUY" /\ s.position = 0 THEN Sim1Buy(s, signal)
    ELSE IF signal.type = "SELL" /\ s.position > 0 THEN Sim1Sell(s, signal)
    ELSE s

\* "Close any remaining positions at the last price", without the final
\* equity curve point.
Sim1CloseNoPoint(s, signals) ==
    IF s.position > 0 /\ Len(signals) > 0
    THEN LET lastSignal == Last(signals)
             sellValue  == s.position * lastSignal.price
             profit     == sellValue - s.position * s.entryPrice
             capital    == s.capital + sellValue
         IN  [s EXCEPT !.capital       = capital,
                       !.trades        = Append(@, [date |-> lastSignal.date, type |-> "SELL",
                                                    price |-> lastSignal.price,
                                                    quantity |-> s.position,
                                                    profit |-> Some(profit)]),
                       !.winningTrades = IF profit > 0 THEN @ + 1 ELSE @,
                       !.totalTrades   = @ + 1]
    ELSE s

\* "Close any remaining positions at the last price".
Sim1Close(s, signals) ==
    IF s.position > 0 /\ Len(signals) > 0
    THEN LET lastSignal == Last(signals)
             sellValue  == s.position * lastSignal.price
             profit     == sellValue - s.position * s.entryPrice
             capital    == s.capital + sellValue
         IN  [s EXCEPT !.capital       = capital,
                       !.trades        = Append(@, [date |-> lastSignal.date, type |-> "SELL",
                                                    price |-> lastSignal.price,
                                                    quantity |-> s.position,
                                                    profit |-> Some(profit)]),
                       !.winningTrades = IF profit > 0 THEN @ + 1 ELSE @,
                       !.totalTrades   = @ + 1,
                       !.equityCurve   = Append(@, [date |-> lastSignal.date,
                                                    equity |-> capital])]
    ELSE s

\* summary.losingTrades
LosingTrades1(totalTrades, winningTrades) == totalTrades - winningTrades

\* "Calculate summary" and the returned object.
Sim1Summary(s, initialCapital) ==
    LET finalCapital == s.capital
        profit       == finalCapital - initialCapital
    IN  [summary |->
           [initialCapital   |-> initialCapital,
            finalCapital     |-> finalCapital,
            profit           |-> profit,
            profitPercentage |-> Frac(profit * 100, initialCapital),
            totalTrades      |-> s.totalTrades,
            winningTrades    |-> s.winningTrades,
            losingTrades     |-> LosingTrades1(s.totalTrades, s.winningTrades),
            winRate          |-> IF s.totalTrades > 0
                                 THEN Frac(s.winningTrades * 100, s.totalTrades) ELSE Zero,
            maxDrawdown      |-> s.maxDrawdown,
            avgTradeProfit   |-> IF s.totalTrades > 0
                                 THEN Frac(profit, s.totalTrades) ELSE Zero],
         trades      |-> s.trades,
         equityCurve |-> s.equityCurve]

\* ------------------------------------------- simulateTrades, second copy

\* One element of the `strategyResults` argument.  Only the fields the
\* simulator reads are kept (time, close, signal); signal is 1, -1 or 0.
Bar2(time, close, signal) == [time |-> time, close |-> close, signal |-> signal]

\* Math.floor(0.95 * cash / currentPrice), computed exactly.
BuyShares2(cash, currentPrice) == Floor(95 * cash, 100 * currentPrice)

\* The locals of simulateTrades after "Record initial equity".
Sim2Init(strategyResults, initialCapital) ==
    [cash          |-> initialCapital,
     shares        |-> 0,
     position      |-> 0,
     entryPrice    |-> 0,
     winningTrades |-> 0,
     losingTrades  |-> 0,
     totalProfit   |-> 0,
     equity        |-> initialCapital,
     maxEquity     |-> initialCapital,
     maxDrawdown   |-> Zero,
     trades        |-> <<>>,
     equityCurve   |-> IF Len(strategyResults) > 0
                       THEN << [date |-> strategyResults[1].time,
                                equity |-> initialCapital] >>
                       ELSE <<>>]

\* "Update equity curve (mark-to-market)" and the push that follows it.
Sim2Mark(s, bar) ==
    LET equity   == IF s.position # 0 THEN s.cash + s.shares * bar.close ELSE s.cash
        drawdown == Frac((s.maxEquity - equity) * 100, s.maxEquity)
    IN  [s EXCEPT !.equity      = equity,
                  !.maxEquity   = IF s.position # 0 /\ equity > @ THEN equity ELSE @,
                  !.maxDrawdown = IF s.position # 0 /\ ~(equity > s.maxEquity)
                                     /\ RatGT(drawdown, @)
                                  THEN drawdown ELSE @,
                  !.equityCurve = Append(@, [date |-> bar.time, equity |-> equity])]

\* "Close short position" inside the buy branch (position = -1).
Sim2CloseShort(s, bar) ==
    LET profit == (s.entryPrice - bar.close) * s.shares
    IN  [s EXCEPT !.totalProfit   = @ + profit,
                  !.winningTrades = IF profit > 0 THEN @ + 1 ELSE @,
                  !.losingTrades  = IF profit > 0 THEN @ ELSE @ + 1,
                  !.trades        = Append(@, [date |-> bar.time, type |-> "BUY",
                                               price |-> bar.close,
                                               quantity |-> s.shares,
                                               profit |-> Some(profit)]),
                  !.cash          = @ + s.entryPrice * s.shares + profit,
                  !.shares        = 0]

\* "Open new long position", the position marked long whatever was bought.
Sim2OpenLongAlways(s, bar) ==
    LET shares == BuyShares2(s.cash, bar.close)
    IN  IF shares > 0
        THEN [s EXCEPT !.shares     = shares,
                       !.cash       = @ - shares * bar.close,
                       !.entryPrice = bar.close,
                       !.position   = 1,
                       !.trades     = Append(@, [date |-> bar.time, type |-> "BUY",
                                                 price |-> bar.close,
                                                 quantity |-> shares, profit |-> Null])]
        ELSE [s EXCEPT !.shares = shares, !.position = 1]

\* "Open new long position".
Sim2OpenLong(s, bar) ==
    LET shares == BuyShares2(s.cash, bar.close)
    IN  IF shares > 0
        THEN [s EXCEPT !.shares     = shares,
                       !.cash       = @ - shares * bar.close,
                       !.entryPrice = bar.close,
                       !.position   = 1,
                       !.trades     = Append(@, [date |-> bar.time, type |-> "BUY",
                                                 price |-> bar.close,
                                                 quantity |-> shares, profit |-> Null])]
        ELSE [s EXCEPT !.shares = shares]

\* "Close long position", only the profit being added to the cash.
Sim2CloseLongProfitOnly(s, time, price) ==
    LET profit == (price - s.entryPrice) * s.shares
    IN  [s EXCEPT !.totalProfit   = @ + profit,
                  !.winningTrades = IF profit > 0 THEN @ + 1 ELSE @,
                  !.losingTrades  = IF profit > 0 THEN @ ELSE @ + 1,
                  !.trades        = Append(@, [date |-> time, type |-> "SELL",
                                               price |-> price,
                                               quantity |-> s.shares,
                                               profit |-> Some(profit)]),
                  !.cash          = @ + profit]

\* "Close long position": the trade row, the counters and the cash.
Sim2CloseLong(s, time, price) ==
    LET profit == (price - s.entryPrice) * s.shares
    IN  [s EXCEPT !.totalProfit   = @ + profit,
                  !.winningTrades = IF profit > 0 THEN @ + 1 ELSE @,
                  !.losingTrades  = IF profit > 0 THEN @ ELSE @ + 1,
                  !.trades        = Append(@, [date |-> time, type |-> "SELL",
                                               price |-> price,
                                               quantity |-> s.shares,
                                               profit |-> Some(profit)]),
                  !.cash          = @ + s.shares * price]

\* "Execute trades based on signals".
Sim2TradeNoGuard(s, bar) ==
    IF bar.signal = 1
    THEN Sim2OpenLong(IF s.position = -1 THEN Sim2CloseShort(s, bar) ELSE s, bar)
    ELSE IF bar.signal = -1 /\ s.position >= 0
    THEN LET c == IF s.position = 1
                  THEN [Sim2CloseLong(s, bar.time, bar.close) EXCEPT !.shares = 0]
                  ELSE s
         IN  [c EXCEPT !.position = 0]
    ELSE s

Sim2Trade(s, bar) ==
    IF bar.signal = 1 /\ s.position <= 0
    THEN Sim2OpenLong(IF s.position = -1 THEN Sim2CloseShort(s, bar) ELSE s, bar)
    ELSE IF bar.signal = -1 /\ s.position >= 0
    THEN LET c == IF s.position = 1
                  THEN [Sim2CloseLong(s, bar.time, bar.close) EXCEPT !.shares = 0]
                  ELSE s
         IN  [c EXCEPT !.position = 0]
    ELSE s

\* The callback of strategyResults.forEach; index counts from 0.
Sim2Bar(s, bar, index) ==
    IF index < SkipBars THEN s ELSE Sim2Trade(Sim2Mark(s, bar), bar)

\* "Close any open position at the end using the last price".
Sim2Close(s, strategyResults) ==
    IF s.position # 0 /\ Len(strategyResults) > 0
    THEN LET lastBar == Last(strategyResults)
         IN  IF s.position = 1 THEN Sim2CloseLong(s, lastBar.time, lastBar.close) ELSE s
    ELSE s

\* totalTrades of the summary.
TotalTrades2Off(winningTrades, losingTrades) == winningTrades + losingTrades + 1

TotalTrades2(winningTrades, losingTrades) == winningTrades + losingTrades

\* "Calculate final equity" and the returned object.
Sim2Summary(s, initialCapital) ==
    LET finalCapital == s.cash
        totalTrades  == TotalTrades2(s.winningTrades, s.losingTrades)
    IN  [summary |->
           [initialCapital   |-> initialCapital,
            finalCapital     |-> finalCapital,
            profit           |-> finalCapital - initialCapital,
            profitPercentage |-> Frac((finalCapital - initialCapital) * 100, initialCapital),
            totalTrades      |-> totalTrades,
            winningTrades    |-> s.winningTrades,
            losingTrades     |-> s.losingTrades,
            winRate          |-> IF totalTrades > 0
                                 THEN Frac(s.winningTrades * 100, totalTrades) ELSE Zero,
            maxDrawdown      |-> s.maxDrawdown,
            avgTradeProfit   |-> IF totalTrades > 0
                                 THEN Frac(s.totalProfit, totalTrades) ELSE Zero],
         trades      |-> s.trades,
         equityCurve |-> s.equityCurve]

\* ------------------------------------------------------------ arithmetic

\* NaN and undefined: what arithmetic on a missing array element gives.
NaN == <<>>

Abs(x) == IF x < 0 THEN -x ELSE x

RECURSIVE GCD(_, _)
GCD(a, b) == IF b = 0 THEN a ELSE GCD(b, a % b)

\* n / d divided through by g, with a positive denominator.
Reduce(n, d, g) ==
    IF d < 0 THEN <<-(n \div g), -(d \div g)>> ELSE <<n \div g, d \div g>>

\* The fraction n / d in lowest terms with a positive denominator.
Exact(n, d) == Reduce(n, d, GCD(Abs(n), Abs(d)))

\* n / d (n >= 0, d > 0) rounded to the nearest integer, a tie to the even
\* one.
RoundInt(n, d) ==
    IF 2 * (n % d) > d \/ (2 * (n % d) = d /\ (n \div d) % 2 = 1)
    THEN (n \div d) + 1 ELSE n \div d

\* The fraction r times num / den.
Scale(r, num, den) == Exact(r[1] * num, r[2] * den)

\* n / d (n > 0, d > 0) rounded to a significand below hi = 2^bits: the
\* value is halved or doubled until it lies in [hi / 2, hi), rounded to an
\* integer there, and scaled back.
RECURSIVE RoundTo(_, _, _)
RoundTo(n, d, hi) ==
    IF n >= hi * d THEN Scale(RoundTo(n, 2 * d, hi), 2, 1)
    ELSE IF 2 * n < hi * d THEN Scale(RoundTo(2 * n, d, hi), 1, 2)
    ELSE <<RoundInt(n, d), 1>>

\* The fraction x rounded to `bits` significant bits.
Rounded(x, bits) ==
    IF x[1] = 0 THEN x
    ELSE IF x[1] < 0 THEN Scale(RoundTo(-x[1], x[2], 2 ^ bits), -1, 1)
    ELSE RoundTo(x[1], x[2], 2 ^ bits)

\* The result of an operation whose exact value is n / d.
Norm(n, d) ==
    IF significand = 0 THEN Exact(n, d) ELSE Rounded(Exact(n, d), significand)

R(x) == <<x, 1>>

RAdd(a, b) == IF a = NaN \/ b = NaN THEN NaN
              ELSE Norm(a[1] * b[2] + b[1] * a[2], a[2] * b[2])

RSub(a, b) == IF a = NaN \/ b = NaN THEN NaN
              ELSE Norm(a[1] * b[2] - b[1] * a[2], a[2] * b[2])

RMul(a, b) == IF a = NaN \/ b = NaN THEN NaN ELSE Norm(a[1] * b[1], a[2] * b[2])

\* a / b, b not zero.
RDiv(a, b) == IF a = NaN \/ b = NaN THEN NaN ELSE Norm(a[1] * b[2], a[2] * b[1])

\* Comparisons; any comparison with NaN or undefined is false.
RLt(a, b) == a # NaN /\ b # NaN /\ a[1] * b[2] < b[1] * a[2]

RLe(a, b) == a # NaN /\ b # NaN /\ a[1] * b[2] <= b[1] * a[2]

RGt(a, b) == RLt(b, a)

RGe(a, b) == RLe(b, a)

\* array.reduce((sum, x) => sum + x, 0)
RECURSIVE RSum(_)
RSum(s) == IF s = <<>> THEN R(0) ELSE RAdd(RSum(SubSeq(s, 1, Len(s) - 1)), Last(s))

\* array.slice(from, to) with 0-based from (inclusive) and to (exclusive).
Slice(s, from, to) ==
    LET lo == IF from < 0 THEN 0 ELSE from
        hi == IF to > Len(s) THEN Len(s) ELSE to
    IN  IF hi <= lo THEN <<>> ELSE SubSeq(s, lo + 1, hi)

\* array[i] with a 0-based index: undefined outside the array.
At(s, i) == IF i >= 0 /\ i < Len(s) THEN s[i + 1] ELSE NaN

\* ------------------------------------------------------ indicator library

\* ema = (data[i] - ema) * k + ema
EMANext(price, ema, k) == RAdd(RMul(RSub(price, ema), k), ema)

\* calculateEMA's loop.  emaData holds the values pushed so far, the last
\* of them being `ema`; the loop variable i is period + emaData.length - 1.
RECURSIVE EMALoop(_, _, _, _)
EMALoop(data, period, k, emaData) ==
    IF period + Len(emaData) - 1 >= Len(data) THEN emaData
    ELSE EMALoop(data, period, k,
                 Append(emaData, EMANext(data[period + Len(emaData)], Last(emaData), k)))

\* calculateEMA(data, period); data is a sequence of fractions.
calculateEMA(data, period) ==
    EMALoop(data, period, Norm(2, period + 1),
            <<RDiv(RSum(Slice(data, 0, period)), R(period))>>)

\* 100 - (100 / (1 + rs)) with rs = avgGain / (avgLoss === 0 ? 0.001 : avgLoss)
RSIValue(avgGain, avgLoss) ==
    RSub(R(100),
         RDiv(R(100),
              RAdd(R(1), RDiv(avgGain, IF avgLoss = R(0) THEN Norm(1, 1000) ELSE avgLoss))))

\* change > 0 ? change : 0
Gain(change) == IF RGt(change, R(0)) THEN change ELSE R(0)

\* change < 0 ? Math.abs(change) : 0
Loss(change) == IF RLt(change, R(0)) THEN RSub(R(0), change) ELSE R(0)

\* The gains and the losses arrays of calculateRSI.
Gains(data) == [i \in 1..(Len(data) - 1) |-> Gain(RSub(data[i + 1], data[i]))]

Losses(data) == [i \in 1..(Len(data) - 1) |-> Loss(RSub(data[i + 1], data[i]))]

\* ((avg * (period - 1)) + x) / period
Smooth(avg, x, period) == RDiv(RAdd(RMul(avg, R(period - 1)), x), R(period))

\* calculateRSI's second loop from 0-based position i of gains on; avgGain
\* and avgLoss are the averages of this iteration, already updated.
RECURSIVE RSILoop(_, _, _, _, _, _)
RSILoop(gains, losses, period, avgGain, avgLoss, i) ==
    <<RSIValue(avgGain, avgLoss)>>
        \o (IF i >= Len(gains) THEN <<>>
            ELSE RSILoop(gains, losses, period,
                         Smooth(avgGain, gains[i + 1], period),
                         Smooth(avgLoss, losses[i + 1], period), i + 1))

\* calculateRSI(data, period)
calculateRSI(data, period) ==
    RSILoop(Gains(data), Losses(data), period,
            RDiv(RSum(Slice(Gains(data), 0, period)), R(period)),
            RDiv(RSum(Slice(Losses(data), 0, period)), R(period)), period)

\* The macdLine of calculateMACD: fastEMA[i] - slowEMA[i + (slow - fast
\* lengths)] for the i from max(0, that difference) on.
MacdLine(fastEMA, slowEMA) ==
    LET off   == Len(slowEMA) - Len(fastEMA)
        first == IF off > 0 THEN off ELSE 0
    IN  [j \in 1..(Len(fastEMA) - first) |->
            RSub(At(fastEMA, first + j - 1), At(slowEMA, first + j - 1 + off))]

\* The histogram of calculateMACD and the returned object.
MacdResult(macdLine, signalLine) ==
    [macdLine   |-> macdLine,
     signalLine |-> signalLine,
     histogram  |-> [i \in 1..Len(signalLine) |->
                       RSub(At(macdLine, (i - 1) + (Len(macdLine) - Len(signalLine))),
                            signalLine[i])]]

\* calculateMACD after its two EMAs.
MacdOf(fastEMA, slowEMA, signalPeriod) ==
    MacdResult(MacdLine(fastEMA, slowEMA),
               calculateEMA(MacdLine(fastEMA, slowEMA), signalPeriod))

\* calculateMACD(data, fastPeriod, slowPeriod, signalPeriod)
calculateMACD(data, fastPeriod, slowPeriod, signalPeriod) ==
    MacdOf(calculateEMA(data, fastPeriod), calculateEMA(data, slowPeriod), signalPeriod)

\* One band around the average avg of slice.  The standard deviation is a
\* square root; a band is kept as its middle (avg) and the square of its
\* half width, (stdDev * sd)^2 = stdDev^2 * variance, and every comparison
\* of a price with a band is made on the squares (PriceLeLower, PriceGeUpper).
BandAround(slice, avg, period, stdDev) ==
    [middle |-> avg,
     width2 |-> RMul(RMul(R(stdDev), R(stdDev)),
                     RDiv(RSum([n \in 1..Len(slice) |->
                                   RMul(RSub(slice[n], avg), RSub(slice[n], avg))]),
                          R(period)))]

\* calculateBollingerBands(data, period, stdDev): one band per i from
\* period - 1 on, of data.slice(i - period + 1, i + 1); here j = i - period + 2.
calculateBollingerBands(data, period, stdDev) ==
    [j \in 1..(IF Len(data) >= period THEN Len(data) - period + 1 ELSE 0) |->
        BandAround(Slice(data, j - 1, j - 1 + period),
                   RDiv(RSum(Slice(data, j - 1, j - 1 + period)), R(period)),
                   period, stdDev)]

\* upper[i] / lower[i] with a 0-based index: undefined outside the array.
BandAt(bands, i) ==
    IF i >= 0 /\ i < Len(bands) THEN bands[i + 1] ELSE [middle |-> NaN, width2 |-> NaN]

\* price <= lower[n], lower = avg - stdDev * sd (stdDev >= 0).
PriceLeLower(price, band) ==
    /\ band.middle # NaN
    /\ RGe(RSub(band.middle, price), R(0))
    /\ RGe(RMul(RSub(band.middle, price), RSub(band.middle, price)), band.width2)

\* price >= upper[n], upper = avg + stdDev * sd (stdDev >= 0).
PriceGeUpper(price, band) ==
    /\ band.middle # NaN
    /\ RGe(RSub(price, band.middle), R(0))
    /\ RGe(RMul(RSub(price, band.middle), RSub(price, band.middle)), band.width2)

\* price > lower[n] and price < upper[n]: false when the band is undefined.
PriceGtLower(price, band) == band.middle # NaN /\ ~PriceLeLower(price, band)

PriceLtUpper(price, band) == band.middle # NaN /\ ~PriceGeUpper(price, band)

\* -------------------------------------------------------- strategy engine

\* A candle: only the fields the service reads (the time and the close).
Candle(time, close) == [time |-> time, close |-> close]

\* data.map(d => d.close)
Closes(data) == [i \in 1..Len(data) |-> R(data[i].close)]

\* "Check for crossover" and "Generate signal" of movingAverageCrossover.
CrossoverSignal(shortEMA, longEMA) ==
    LET currentCrossover  == RGt(At(shortEMA, Len(shortEMA) - 1),
                                 At(longEMA, Len(longEMA) - 1))
        previousCrossover == RGt(At(shortEMA, Len(shortEMA) - 2),
                                 At(longEMA, Len(longEMA) - 2))
    IN  IF currentCrossover /\ ~previousCrossover THEN "BUY"
        ELSE IF ~currentCrossover /\ previousCrossover THEN "SELL"
        ELSE "NEUTRAL"

\* movingAverageCrossover(data, shortPeriod, longPeriod).signal
movingAverageCrossover(data, shortPeriod, longPeriod) ==
    IF Len(data) < longPeriod THEN "NEUTRAL"
    ELSE CrossoverSignal(calculateEMA(Closes(data), shortPeriod),
                         calculateEMA(Closes(data), longPeriod))

\* "Generate signal" of rsiStrategy.
RsiSignal(rsiValues, overbought, oversold) ==
    LET currentRSI  == At(rsiValues, Len(rsiValues) - 1)
        previousRSI == At(rsiValues, Len(rsiValues) - 2)
    IN  IF RLt(currentRSI, R(oversold)) /\ RGe(previousRSI, R(oversold)) THEN "BUY"
        ELSE IF RGt(currentRSI, R(overbought)) /\ RLe(previousRSI, R(overbought))
        THEN "SELL"
        ELSE "NEUTRAL"

\* rsiStrategy(data, period, overbought, oversold).signal
rsiStrategy(data, period, overbought, oversold) ==
    IF Len(data) < period + 14 THEN "NEUTRAL"
    ELSE RsiSignal(calculateRSI(Closes(data), period), overbought, oversold)

\* "Generate signal" of macdStrategy; m is what calculateMACD returned.
MacdSignal(m) ==
    LET currentMacd       == At(m.macdLine, Len(m.macdLine) - 1)
        currentSignal     == At(m.signalLine, Len(m.signalLine) - 1)
        currentHistogram  == At(m.histogram, Len(m.histogram) - 1)
        previousHistogram == At(m.histogram, Len(m.histogram) - 2)
    IN  IF /\ RGt(currentMacd, currentSignal)
           /\ RLe(previousHistogram, R(0))
           /\ RGt(currentHistogram, R(0))
        THEN "BUY"
        ELSE IF /\ RLt(currentMacd, currentSignal)
                /\ RGe(previousHistogram, R(0))
                /\ RLt(currentHistogram, R(0))
        THEN "SELL"
        ELSE "NEUTRAL"

\* macdStrategy(data, fastPeriod, slowPeriod, signalPeriod).signal
macdStrategy(data, fastPeriod, slowPeriod, signalPeriod) ==
    IF Len(data) < slowPeriod + signalPeriod THEN "NEUTRAL"
    ELSE MacdSignal(calculateMACD(Closes(data), fastPeriod, slowPeriod, signalPeriod))

\* "Generate signal" of bollingerBandsStrategy.
BandsSignal(data, bands) ==
    LET currentPrice  == R(data[Len(data)].close)
        previousPrice == R(data[Len(data) - 1].close)
        current       == BandAt(bands, Len(bands) - 1)
        previous      == BandAt(bands, Len(bands) - 2)
    IN  IF PriceLeLower(previousPrice, previous) /\ PriceGtLower(currentPrice, current)
        THEN "BUY"
        ELSE IF PriceGeUpper(previousPrice, previous)
                /\ PriceLtUpper(currentPrice, current)
        THEN "SELL"
        ELSE "NEUTRAL"

\* bollingerBandsStrategy(data, period, stdDev).signal; "TypeError" when
\* data[data.length - 2] is undefined and reading its close throws.
bollingerBandsStrategy(data, period, stdDev) ==
    IF Len(data) < period THEN "NEUTRAL"
    ELSE IF Len(data) < 2 THEN "TypeError"
    ELSE BandsSignal(data, calculateBollingerBands(Closes(data), period, stdDev))

\* The strategy names the switch statements know.
Supported ==
    {"Moving Average Crossover", "RSI Strategy", "MACD Strategy", "Bollinger Bands Strategy"}

\* parameters.x || d: the default when the key is absent (0 here) or falsy.
OrDefault(x, d) == IF x = 0 THEN d ELSE x

\* A returned value and a thrown error.
Ok(v) == [ok |-> TRUE, value |-> v]

Err(e) == [ok |-> FALSE, error |-> e]

\* applyStrategy, first copy.  Each case calls a strategy function, which
\* returns an object {signal, meta}, and then calls result.map on it: the
\* object has no map, so the call throws a TypeError.  The HOLD filter of the
\* last line is never reached.
applyStrategy1(data, strategyName, parameters) ==
    IF Len(data) = 0 THEN Err("No data provided for strategy application")
    ELSE IF strategyName \in Supported THEN Err("TypeError: result.map is not a function")
    ELSE Err("Strategy not supported")

\* Bars with index below this get signal 0 (second copy).
MinSignalIndex == 30

\* The switch of the second copy: the signal of the strategy on currentData.
StrategySignal2(strategyName, currentData, parameters) ==
    CASE strategyName = "Moving Average Crossover" ->
            Ok(movingAverageCrossover(currentData,
                                      OrDefault(parameters.shortPeriod, 9),
                                      OrDefault(parameters.longPeriod, 21)))
      [] strategyName = "RSI Strategy" ->
            Ok(rsiStrategy(currentData,
                           OrDefault(parameters.period, 14),
                           OrDefault(parameters.overbought, 70),
                           OrDefault(parameters.oversold, 30)))
      [] strategyName = "MACD Strategy" ->
            Ok(macdStrategy(currentData,
                            OrDefault(parameters.fastPeriod, 12),
                            OrDefault(parameters.slowPeriod, 26),
                            OrDefault(parameters.signalPeriod, 9)))
      [] strategyName = "Bollinger Bands Strategy" ->
            Ok(bollingerBandsStrategy(currentData,
                                      OrDefault(parameters.period, 20),
                                      OrDefault(parameters.stdDev, 2)))
      [] OTHER -> Err("Strategy not implemented")

\* "Convert signal to numeric value": BUY 1, SELL -1, otherwise 0; r is what
\* the switch gave, an error being passed on.
SignalValue(r) ==
    IF ~r.ok THEN r
    ELSE IF r.value = "TypeError" THEN Err("TypeError")
    ELSE Ok(IF r.value = "BUY" THEN 1 ELSE IF r.value = "SELL" THEN -1 ELSE 0)

\* One iteration of the loop of applyStrategy (second copy) with the
\* strategy called from the first candle on.
ApplyBar2NoWarmUp(strategyName, ohlcData, parameters, i) ==
    SignalValue(StrategySignal2(strategyName, SubSeq(ohlcData, 1, i + 1), parameters))

\* One iteration of the loop of applyStrategy (second copy) at 0-based i:
\* the signal pushed (1, -1, 0), or the error thrown.
ApplyBar2(strategyName, ohlcData, parameters, i) ==
    IF i >= MinSignalIndex
    THEN SignalValue(StrategySignal2(strategyName, SubSeq(ohlcData, 1, i + 1), parameters))
    ELSE Ok(0)

\* "Combine original data with signals": the returned array.
Combine2(ohlcData, signals) ==
    [index \in 1..Len(ohlcData) |->
        Bar2(ohlcData[index].time, ohlcData[index].close,
             IF index <= Len(signals) THEN signals[index] ELSE 0)]

\* The end of the loop of applyStrategy (second copy): each[i] is what
\* iteration i - 1 gave; the first error is thrown, if there is one.
ApplyAll2(data, each) ==
    IF \E i \in 1..Len(data) : ~each[i].ok
    THEN each[CHOOSE i \in 1..Len(data) : ~each[i].ok /\ \A j \in 1..(i - 1) : each[j].ok]
    ELSE Ok(Combine2(data, [i \in 1..Len(data) |-> each[i].value]))

\* applyStrategy, second copy, as a whole.
applyStrategy2(strategyName, data, parameters) ==
    ApplyAll2(data, [i \in 1..Len(data) |-> ApplyBar2(strategyName, data, parameters, i - 1)])

\* ------------------------------------------------ simulateTrades as a whole

SimInit(c, in, cap) == IF c = 1 THEN Sim1Init(in, cap) ELSE Sim2Init(in, cap)

SimBar(c, s, in, i) == IF c = 1 THEN Sim1Bar(s, in[i]) ELSE Sim2Bar(s, in[i], i - 1)

SimClose(c, s, in) == IF c = 1 THEN Sim1Close(s, in) ELSE Sim2Close(s, in)

SimSummary(c, s, cap) == IF c = 1 THEN Sim1Summary(s, cap) ELSE Sim2Summary(s, cap)

\* The loop from 1-based position i on.  The comparison only fixes the order
\* of evaluation: an iteration is computed before the next one starts.
RECURSIVE SimLoop(_, _, _, _)
SimLoop(c, s, in, i) ==
    IF i > Len(in) THEN s
    ELSE LET next == SimBar(c, s, in, i)
         IN  IF next = next THEN SimLoop(c, next, in, i + 1) ELSE next

\* simulateTrades(in, cap) of copy c: {summary, trades, equityCurve}.
simulateTrades(c, in, cap) ==
    SimSummary(c, SimClose(c, SimLoop(c, SimInit(c, in, cap), in, 1), in), cap)

\* ------------------------------------------------------------------ state

VARIABLES
    copy,            \* 1 or 2: which copy of the service runs
    \* one simulateTrades call
    input,           \* the signals / strategyResults argument
    initialCapital,  \* the initialCapital argument
    idx,             \* 1-based position of the next element of input
    st,              \* the locals of simulateTrades
    pc,              \* "loop", "close", "summary", "done"
    result,          \* the returned {summary, trades, equityCurve}, <<>> before
    \* one applyStrategy call
    strategyName,    \* the strategyName argument
    parameters,      \* the parameters argument
    data,            \* the data argument: the candles
    signals,         \* the signals array of the second copy's loop
    apc,             \* "call", "loop", "returned", "thrown"
    aout,            \* what the call returned or threw, <<>> before
    \* runBacktest, the database and the readers
    calls,           \* the runBacktest calls: arguments, locals, position
    backtests,       \* the rows of the backtests table, in insertion order
    backtestTrades,  \* the rows of the backtest_trades table, in insertion order
    nextId,          \* the next value of the serial backtests.id
    reader           \* a getBacktestDetails and a getUserBacktests call

simVars == <<input, initialCapital, idx, st, pc, result>>

stratVars == <<strategyName, parameters, data, signals, apc, aout>>

runVars == <<calls, backtests, backtestTrades, nextId, reader>>

vars == <<copy, clock, significand, simVars, stratVars, runVars>>

\* No simulateTrades call / no applyStrategy call is modelled.
SimIdle ==
    /\ input = <<>> /\ initialCapital = 0 /\ idx = 0
    /\ st = <<>> /\ pc = "idle" /\ result = <<>>

StratIdle ==
    /\ strategyName = "" /\ parameters = <<>> /\ data = <<>>
    /\ signals = <<>> /\ apc = "idle" /\ aout = <<>>

RunIdle ==
    /\ calls = <<>> /\ backtests = <<>> /\ backtestTrades = <<>>
    /\ nextId = 0 /\ reader = <<>>

\* ------------------------------------------------- one simulateTrades call

\* The values of the wall clock.
Clocks == {0, 1}

\* What an input element is drawn from: a close price and a signal.
RawBar == Prices \X {1, -1, 0}

SignalType(n) == IF n > 0 THEN "BUY" ELSE IF n < 0 THEN "SELL" ELSE "HOLD"

\* The element at 1-based position i, in the shape the copy c reads.
InputBar(c, i, raw) ==
    IF c = 1 THEN Signal1(i, SignalType(raw[2]), raw[1])
             ELSE Bar2(i, raw[1], raw[2])

\* k copies of the same element followed by a freely chosen tail.
RawInputs ==
    {[i \in 1..(k + Len(tail)) |-> IF i <= k THEN lead ELSE tail[i - k]] :
        lead \in RawBar, k \in {0, SkipBars}, tail \in SeqUpTo(RawBar, MaxTail)}

SimInputs(c) == {[i \in 1..Len(raw) |-> InputBar(c, i, raw[i])] : raw \in RawInputs}

InitSim ==
    /\ copy \in {1, 2}
    /\ clock = 0
    /\ significand = 0
    /\ input \in SimInputs(copy)
    /\ initialCapital \in Capitals
    /\ idx = 1
    /\ st = SimInit(copy, input, initialCapital)
    /\ pc = "loop"
    /\ result = <<>>
    /\ StratIdle
    /\ RunIdle

\* One iteration of the loop over the input.
StepBar ==
    /\ pc = "loop"
    /\ idx <= Len(input)
    /\ st' = SimBar(copy, st, input, idx)
    /\ idx' = idx + 1
    /\ UNCHANGED <<copy, clock, significand, input, initialCapital, pc, result, stratVars, runVars>>

\* The loop is over.
StepLoopEnd ==
    /\ pc = "loop"
    /\ idx > Len(input)
    /\ pc' = "close"
    /\ UNCHANGED <<copy, clock, significand, input, initialCapital, idx, st, result, stratVars, runVars>>

\* The forced close after the loop.
StepClose ==
    /\ pc = "close"
    /\ st' = SimClose(copy, st, input)
    /\ pc' = "summary"
    /\ UNCHANGED <<copy, clock, significand, input, initialCapital, idx, result, stratVars, runVars>>

\* The summary and the return.
StepSummary ==
    /\ pc = "summary"
    /\ result' = SimSummary(copy, st, initialCapital)
    /\ pc' = "done"
    /\ UNCHANGED <<copy, clock, significand, input, initialCapital, idx, st, stratVars, runVars>>

\* Time passes.
Tick ==
    /\ clock' \in Clocks
    /\ clock' > clock
    /\ UNCHANGED <<copy, significand, simVars, stratVars, runVars>>

NextSim == StepBar \/ StepLoopEnd \/ StepClose \/ StepSummary \/ Tick

SpecSim == InitSim /\ [][NextSim]_vars

\* -------------------------------------------------- one applyStrategy call

\* Longest freely chosen end of a candle sequence.
MaxCandleTail == 3

\* Close prices of the candles.
CandlePrices == {2, 3}

\* Close prices of n candles: one price held, then a freely chosen tail.
PricePaths(n) ==
    {[i \in 1..n |-> IF i <= n - Len(tail) THEN lead ELSE tail[i - (n - Len(tail))]] :
        lead \in CandlePrices,
        tail \in SeqUpTo(CandlePrices, IF n < MaxCandleTail THEN n ELSE MaxCandleTail)}

\* The candles with the given times (increasing) and close prices.
MkCandles(times, closes) == [i \in 1..Len(times) |-> Candle(times[i], closes[i])]

\* Numbers of candles: too few for any signal, and MinSignalIndex and more.
CandleCounts == (0..MaxCandleTail) \cup (MinSignalIndex..(MinSignalIndex + MaxCandleTail))

Candles ==
    UNION {{MkCandles([i \in 1..n |-> i], path) : path \in PricePaths(n)} : n \in CandleCounts}

\* The parameters object; a key that is absent is 0.
Params(sp, lp, per, ob, os, fp, slp, sgp, sd) ==
    [shortPeriod |-> sp, longPeriod |-> lp, period |-> per, overbought |-> ob,
     oversold |-> os, fastPeriod |-> fp, slowPeriod |-> slp, signalPeriod |-> sgp,
     stdDev |-> sd]

\* No key given; short periods; lookbacks longer than the data; lookbacks of
\* exactly MinSignalIndex + 1 candles.
DefaultParams == Params(0, 0, 0, 0, 0, 0, 0, 0, 0)

QuickParams == Params(1, 3, 2, 70, 30, 1, 3, 2, 1)

ParamSets ==
    {DefaultParams,
     QuickParams,
     Params(9, 50, 40, 70, 30, 12, 30, 9, 2),
     Params(2, 31, 17, 60, 40, 2, 22, 9, 1)}

StrategyNames == Supported \cup {"NotAStrategy"}

InitStrat ==
    /\ copy \in {1, 2}
    /\ clock = 0
    /\ significand = 0
    /\ strategyName \in StrategyNames
    /\ parameters \in ParamSets
    /\ data \in Candles
    /\ signals = <<>>
    /\ apc = "call"
    /\ aout = <<>>
    /\ SimIdle
    /\ RunIdle

\* The first copy: the whole call.
Apply1 ==
    /\ apc = "call" /\ copy = 1
    /\ LET r == applyStrategy1(data, strategyName, parameters)
       IN  /\ aout' = r
           /\ apc' = IF r.ok THEN "returned" ELSE "thrown"
    /\ UNCHANGED <<copy, clock, significand, strategyName, parameters, data, signals, simVars, runVars>>

\* The second copy: the map to ohlcData, before the loop.
Apply2Enter ==
    /\ apc = "call" /\ copy = 2
    /\ apc' = "loop"
    /\ UNCHANGED <<copy, clock, significand, strategyName, parameters, data, signals, aout, simVars, runVars>>

\* The second copy: one iteration of the loop, i = signals.length.
Apply2Bar ==
    /\ apc = "loop"
    /\ Len(signals) < Len(data)
    /\ LET r == ApplyBar2(strategyName, data, parameters, Len(signals))
       IN  IF r.ok
           THEN /\ signals' = Append(signals, r.value)
                /\ UNCHANGED <<apc, aout>>
           ELSE /\ apc' = "thrown"
                /\ aout' = r
                /\ UNCHANGED signals
    /\ UNCHANGED <<copy, clock, significand, strategyName, parameters, data, simVars, runVars>>

\* The second copy: the return after the loop.
Apply2Return ==
    /\ apc = "loop"
    /\ Len(signals) = Len(data)
    /\ aout' = Ok(Combine2(data, signals))
    /\ apc' = "returned"
    /\ UNCHANGED <<copy, clock, significand, strategyName, parameters, data, signals, simVars, runVars>>

NextStrat == Apply1 \/ Apply2Enter \/ Apply2Bar \/ Apply2Return

SpecStrat == InitStrat /\ [][NextStrat]_vars

\* ------------------------------- applyStrategy on a constant close price

\* The significant bits of a number when the arithmetic rounds.
SignificandBits == 4

\* Candles whose close price never changes.
FlatCandles ==
    {MkCandles([i \in 1..n |-> i], [i \in 1..n |-> price]) :
        price \in CandlePrices, n \in CandleCounts}

\* The strategies that read the moving averages and the RSI.
FlatStrategies == {"Moving Average Crossover", "RSI Strategy"}

InitFlat ==
    /\ copy \in {1, 2}
    /\ clock = 0
    /\ significand \in {0, SignificandBits}
    /\ strategyName \in FlatStrategies
    /\ parameters \in ParamSets
    /\ data \in FlatCandles
    /\ signals = <<>>
    /\ apc = "call"
    /\ aout = <<>>
    /\ SimIdle
    /\ RunIdle

SpecFlat == InitFlat /\ [][NextStrat]_vars

\* ------------------------------------------- runBacktest and the database

\* The rows of the strategies table: an id and a free-text name.
StrategyRows ==
    {[id |-> 1, name |-> "Moving Average Crossover"],
     [id |-> 2, name |-> "NotAStrategy"]}

\* strategyId arguments: the rows above and an id without a row.
StrategyIds == {1, 2, 3}

Users == {1, 2}

\* initialCapital arguments of runBacktest.
RunCapitals == {-5, 0, 10}

\* <<startDate, endDate>> arguments, as day numbers; day 0 is a Sunday.
DateRanges == {<<1, 1>>, <<3, 1>>, <<1, 3>>, <<1, 43>>, <<1, 45>>}

\* parameters arguments of runBacktest.
RunParamSets == {DefaultParams, QuickParams}

\* The calls of runBacktest.
CallIds == {1}

\* date.getDay() === 0 || date.getDay() === 6
IsWeekend(day) == day % 7 \in {0, 6}

\* The dates of the bars generateMockHistoricalData pushes for days
\* day, day + 1, ..., n of them, weekends skipped.
RECURSIVE MockDates(_, _)
MockDates(day, n) ==
    IF n <= 0 THEN <<>>
    ELSE (IF IsWeekend(day) THEN <<>> ELSE <<day>>) \o MockDates(day + 1, n - 1)

\* The number of loop iterations of generateMockHistoricalData.
NumBars(c, startDate, endDate) ==
    LET dayDiff == endDate - startDate
    IN  IF c = 2 /\ dayDiff > 365 THEN 365 ELSE dayDiff

\* generateMockHistoricalData(startDate, endDate): the prices are random.
generateMockHistoricalData(c, startDate, endDate) ==
    LET dates == MockDates(startDate, NumBars(c, startDate, endDate))
    IN  {MkCandles(dates, path) : path \in PricePaths(Len(dates))}

\* angelOneApi.getHistoricalData: the market-data source.  It throws.
getHistoricalData ==
    Err("AngelOne API getHistoricalData not implemented - using fallback")

\* fetchHistoricalData: the candles of the source, or generated ones when
\* the source throws (both copies) or returns nothing (first copy).
fetchHistoricalData(c, startDate, endDate) ==
    IF getHistoricalData.ok /\ (c = 2 \/ Len(getHistoricalData.value) > 0)
    THEN {getHistoricalData.value}
    ELSE generateMockHistoricalData(c, startDate, endDate)

\* applyStrategy of copy c.
applyStrategy(c, name, candles, params) ==
    IF c = 1 THEN applyStrategy1(candles, name, params)
             ELSE applyStrategy2(name, candles, params)

\* The values of `db.insert(backtests)`, with the id the database assigns.
BacktestRow(c, id, call) ==
    IF c = 1
    THEN [id |-> id, userId |-> call.userId, strategyId |-> call.strategyId,
          strategyName |-> call.strategy.name,
          startDate |-> call.startDate, endDate |-> call.endDate,
          initialCapital |-> call.initialCapital,
          finalCapital |-> call.sim.summary.finalCapital,
          parameters |-> call.parameters,
          profitLoss |-> call.sim.summary.profit,
          profitLossPercentage |-> call.sim.summary.profitPercentage,
          totalTrades |-> call.sim.summary.totalTrades,
          winningTrades |-> call.sim.summary.winningTrades,
          maxDrawdown |-> call.sim.summary.maxDrawdown]
    ELSE [id |-> id, userId |-> call.userId, strategyId |-> call.strategyId,
          startDate |-> call.startDate, endDate |-> call.endDate,
          initialCapital |-> call.initialCapital,
          finalCapital |-> call.sim.summary.finalCapital,
          totalTrades |-> call.sim.summary.totalTrades,
          winningTrades |-> call.sim.summary.winningTrades,
          losingTrades |-> call.sim.summary.losingTrades,
          parameters |-> call.parameters]

\* The values of `db.insert(backtestTrades)` for one trade.
TradeRow(backtestId, trade) ==
    [backtestId |-> backtestId, date |-> trade.date, type |-> trade.type,
     price |-> trade.price, quantity |-> trade.quantity, profit |-> trade.profit]

\* The object runBacktest returns.
BacktestResult(call, backtestId) ==
    [backtestId  |-> backtestId,
     summary     |-> call.sim.summary,
     trades      |-> call.sim.trades,
     equityCurve |-> call.sim.equityCurve]

\* A call before its first statement.
NewCall(userId, strategyId, range, capital, params) ==
    [pc |-> "select", userId |-> userId, strategyId |-> strategyId,
     startDate |-> range[1], endDate |-> range[2],
     initialCapital |-> capital, parameters |-> params,
     strategy |-> Null, historicalData |-> <<>>, sim |-> <<>>,
     backtestId |-> 0, saved |-> 0, out |-> <<>>]

\* The call throws e: the catch block logs and rethrows.
Throw(call, e) == [call EXCEPT !.pc = "thrown", !.out = Err(e)]

\* The call returns its result.
Return(call, backtestId) ==
    [call EXCEPT !.pc = "returned", !.out = Ok(BacktestResult(call, backtestId))]

\* A getBacktestDetails call before its first statement, with the
\* getUserBacktests call of the same user not made yet.
NewReader(backtestId, userId) ==
    [pc |-> "select", backtestId |-> backtestId, userId |-> userId,
     backtest |-> Null, out |-> <<>>, listed |-> Null]

\* The rows of backtest_trades a query for backtestId selects.
TradesOf(rows, backtestId) == SelectSeq(rows, LAMBDA row : row.backtestId = backtestId)

\* The profit of the rows dated from..to, rows without a profit left out.
RECURSIVE ProfitBetween(_, _, _)
ProfitBetween(rows, from, to) ==
    IF rows = <<>> THEN 0
    ELSE LET row == Last(rows)
         IN  ProfitBetween(SubSeq(rows, 1, Len(rows) - 1), from, to)
             + (IF row.profit # Null /\ row.date >= from /\ row.date <= to
                THEN row.profit[1] ELSE 0)

\* getBacktestDetails, first copy, after its two selects: the daily equity
\* curve and the summary, whose quotients are not guarded.
Details1(backtest, rows) ==
    [backtest    |-> backtest,
     trades      |-> rows,
     equityCurve |->
        [k \in 1..(backtest.endDate - backtest.startDate + 1) |->
            [date   |-> backtest.startDate + k - 1,
             equity |-> backtest.initialCapital
                        + ProfitBetween(rows, backtest.startDate,
                                        backtest.startDate + k - 1)]],
     summary     |->
        [initialCapital   |-> backtest.initialCapital,
         finalCapital     |-> backtest.finalCapital,
         profit           |-> backtest.profitLoss,
         profitPercentage |-> backtest.profitLossPercentage,
         totalTrades      |-> backtest.totalTrades,
         winningTrades    |-> backtest.winningTrades,
         losingTrades     |-> backtest.totalTrades - backtest.winningTrades,
         winRate          |-> Frac(backtest.winningTrades * 100, backtest.totalTrades),
         maxDrawdown      |-> backtest.maxDrawdown,
         avgTradeProfit   |-> Frac(backtest.profitLoss, backtest.totalTrades)]]

\* getBacktestDetails, second copy, after its two selects.
Details2(backtest, rows) == [backtest |-> backtest, trades |-> rows]

InitRun ==
    /\ copy \in {1, 2}
    /\ clock = 0
    /\ significand = 0
    /\ calls \in [CallIds -> {NewCall(u, s, range, capital, params) :
                                u \in Users, s \in StrategyIds, range \in DateRanges,
                                capital \in RunCapitals, params \in RunParamSets}]
    /\ backtests = <<>>
    /\ backtestTrades = <<>>
    /\ nextId = 1
    /\ reader \in {NewReader(id, u) : id \in 1..Cardinality(CallIds), u \in Users}
    /\ SimIdle
    /\ StratIdle

\* runBacktest from applyStrategy's return (or throw) to the insert into
\* backtests being issued.
Simulated(c, call, applied) ==
    IF ~applied.ok THEN Throw(call, applied.error)
    ELSE [call EXCEPT !.pc = "insertBacktest",
                      !.sim = simulateTrades(c, applied.value, call.initialCapital)]

\* runBacktest up to its first await: the select from strategies resolves
\* (or the database fails), then fetchHistoricalData is called.
RunSelectStrategy(c) ==
    /\ calls[c].pc = "select"
    /\ \E dbOk \in BOOLEAN :
          LET found == {row \in StrategyRows : row.id = calls[c].strategyId}
          IN  calls' = [calls EXCEPT ![c] =
                  IF ~dbOk THEN Throw(@, "database error")
                  ELSE IF found = {} THEN Throw(@, "Strategy not found")
                  ELSE [@ EXCEPT !.pc = "fetch",
                                 !.strategy = CHOOSE row \in found : TRUE]]
    /\ UNCHANGED <<copy, clock, significand, backtests, backtestTrades, nextId, reader, simVars, stratVars>>

\* fetchHistoricalData resolves; the empty check, applyStrategy and
\* simulateTrades run, and the insert into backtests is issued.
RunFetch(c) ==
    /\ calls[c].pc = "fetch"
    /\ \E historicalData \in
            fetchHistoricalData(copy, calls[c].startDate, calls[c].endDate) :
          calls' = [calls EXCEPT ![c] =
              IF Len(historicalData) = 0
              THEN Throw(@, "No historical data available")
              ELSE Simulated(copy, [@ EXCEPT !.historicalData = historicalData],
                             applyStrategy(copy, @.strategy.name, historicalData,
                                           @.parameters))]
    /\ UNCHANGED <<copy, clock, significand, backtests, backtestTrades, nextId, reader, simVars, stratVars>>

\* The insert into backtests resolves (or the database fails).  The second
\* copy returns here when there is no trade; the first when its loop over
\* the trades is empty.
RunInsertBacktest(c) ==
    /\ calls[c].pc = "insertBacktest"
    /\ \E dbOk \in BOOLEAN :
          IF dbOk
          THEN /\ backtests' = Append(backtests, BacktestRow(copy, nextId, calls[c]))
               /\ nextId' = nextId + 1
               /\ calls' = [calls EXCEPT ![c] =
                     IF Len(@.sim.trades) = 0
                     THEN Return([@ EXCEPT !.backtestId = nextId], nextId)
                     ELSE [@ EXCEPT !.pc = "insertTrades", !.backtestId = nextId]]
          ELSE /\ calls' = [calls EXCEPT ![c] = Throw(@, "database error")]
               /\ UNCHANGED <<backtests, nextId>>
    /\ UNCHANGED <<copy, clock, significand, backtestTrades, reader, simVars, stratVars>>

\* RunInsertTrades with the record id kept in one place shared by all the
\* calls (the id the database assigned last) instead of a local.
RunInsertTradesSharedId(c) ==
    /\ calls[c].pc = "insertTrades"
    /\ \E dbOk \in BOOLEAN :
          LET call   == calls[c]
              trades == call.sim.trades
              rows   == IF copy = 1
                        THEN <<TradeRow(nextId - 1, trades[call.saved + 1])>>
                        ELSE [i \in 1..Len(trades) |-> TradeRow(nextId - 1, trades[i])]
              saved  == call.saved + Len(rows)
          IN  IF dbOk
              THEN /\ backtestTrades' = backtestTrades \o rows
                   /\ calls' = [calls EXCEPT ![c] =
                         IF saved = Len(trades)
                         THEN Return([@ EXCEPT !.saved = saved], call.backtestId)
                         ELSE [@ EXCEPT !.saved = saved]]
              ELSE /\ calls' = [calls EXCEPT ![c] = Throw(@, "database error")]
                   /\ UNCHANGED backtestTrades
    /\ UNCHANGED <<copy, clock, significand, backtests, nextId, reader, simVars, stratVars>>

\* RunInsertTrades with a failed insert swallowed: the call goes on as if
\* the rows had been written.
RunInsertTradesSwallowed(c) ==
    /\ calls[c].pc = "insertTrades"
    /\ \E dbOk \in BOOLEAN :
          LET call   == calls[c]
              trades == call.sim.trades
              rows   == IF copy = 1
                        THEN <<TradeRow(call.backtestId, trades[call.saved + 1])>>
                        ELSE [i \in 1..Len(trades) |-> TradeRow(call.backtestId, trades[i])]
              saved  == call.saved + Len(rows)
          IN  /\ backtestTrades' = IF dbOk THEN backtestTrades \o rows ELSE backtestTrades
              /\ calls' = [calls EXCEPT ![c] =
                    IF saved = Len(trades)
                    THEN Return([@ EXCEPT !.saved = saved], call.backtestId)
                    ELSE [@ EXCEPT !.saved = saved]]
    /\ UNCHANGED <<copy, clock, significand, backtests, nextId, reader, simVars, stratVars>>

\* An insert into backtest_trades resolves (or the database fails): the
\* first copy inserts one trade per statement, the second all in one.
RunInsertTrades(c) ==
    /\ calls[c].pc = "insertTrades"
    /\ \E dbOk \in BOOLEAN :
          LET call   == calls[c]
              trades == call.sim.trades
              rows   == IF copy = 1
                        THEN <<TradeRow(call.backtestId, trades[call.saved + 1])>>
                        ELSE [i \in 1..Len(trades) |-> TradeRow(call.backtestId, trades[i])]
              saved  == call.saved + Len(rows)
          IN  IF dbOk
              THEN /\ backtestTrades' = backtestTrades \o rows
                   /\ calls' = [calls EXCEPT ![c] =
                         IF saved = Len(trades)
                         THEN Return([@ EXCEPT !.saved = saved], call.backtestId)
                         ELSE [@ EXCEPT !.saved = saved]]
              ELSE /\ calls' = [calls EXCEPT ![c] = Throw(@, "database error")]
                   /\ UNCHANGED backtestTrades
    /\ UNCHANGED <<copy, clock, significand, backtests, nextId, reader, simVars, stratVars>>

\* ReadBacktest with the userId condition of the query left out.
ReadBacktestAnyUser ==
    /\ reader.pc = "select"
    /\ LET found == SelectSeq(backtests, LAMBDA row : row.id = reader.backtestId)
       IN  reader' =
             IF found = <<>>
             THEN IF copy = 1
                  THEN [reader EXCEPT !.pc = "returned", !.out = Ok(Null)]
                  ELSE [reader EXCEPT !.pc = "thrown", !.out = Err("Backtest not found")]
             ELSE [reader EXCEPT !.pc = "trades", !.backtest = found[1]]
    /\ UNCHANGED <<copy, clock, significand, calls, backtests, backtestTrades, nextId, simVars, stratVars>>

\* getBacktestDetails: the select from backtests resolves.
ReadBacktest ==
    /\ reader.pc = "select"
    /\ LET found == SelectSeq(backtests, LAMBDA row :
                        row.id = reader.backtestId /\ row.userId = reader.userId)
       IN  reader' =
             IF found = <<>>
             THEN IF copy = 1
                  THEN [reader EXCEPT !.pc = "returned", !.out = Ok(Null)]
                  ELSE [reader EXCEPT !.pc = "thrown", !.out = Err("Backtest not found")]
             ELSE [reader EXCEPT !.pc = "trades", !.backtest = found[1]]
    /\ UNCHANGED <<copy, clock, significand, calls, backtests, backtestTrades, nextId, simVars, stratVars>>

\* getBacktestDetails: the select from backtest_trades resolves.
ReadTrades ==
    /\ reader.pc = "trades"
    /\ LET rows == TradesOf(backtestTrades, reader.backtestId)
       IN  reader' = [reader EXCEPT
                         !.pc  = "returned",
                         !.out = Ok(IF copy = 1 THEN Details1(reader.backtest, rows)
                                                ELSE Details2(reader.backtest, rows))]
    /\ UNCHANGED <<copy, clock, significand, calls, backtests, backtestTrades, nextId, simVars, stratVars>>

\* getUserBacktests: its one select.
ListBacktests ==
    /\ reader.listed = Null
    /\ reader' = [reader EXCEPT !.listed =
                     Some(SelectSeq(backtests, LAMBDA row : row.userId = reader.userId))]
    /\ UNCHANGED <<copy, clock, significand, calls, backtests, backtestTrades, nextId, simVars, stratVars>>

NextRun ==
    \/ \E c \in CallIds :
          \/ RunSelectStrategy(c)
          \/ RunFetch(c)
          \/ RunInsertBacktest(c)
          \/ RunInsertTrades(c)
    \/ ReadBacktest
    \/ ReadTrades
    \/ ListBacktests

SpecRun == InitRun /\ [][NextRun]_vars

\* ------------------------------------------- two concurrent runBacktest calls

\* No getBacktestDetails or getUserBacktests call is made here.

\* The two calls.
PairIds == {1, 2}

\* Their arguments: a window of 32 weekdays, enough for signals and trades;
\* the first call is user 1's, the second user 2's.
PairCalls ==
    <<NewCall(1, 1, <<1, 45>>, 10, DefaultParams),
      NewCall(2, 1, <<1, 45>>, 10, DefaultParams)>>

InitPair ==
    /\ copy \in {1, 2}
    /\ clock = 0
    /\ significand = 0
    /\ calls = PairCalls
    /\ backtests = <<>>
    /\ backtestTrades = <<>>
    /\ nextId = 1
    /\ reader = <<>>
    /\ SimIdle
    /\ StratIdle

NextPair ==
    \/ \E c \in PairIds :
          \/ RunSelectStrategy(c)
          \/ RunFetch(c)
          \/ RunInsertBacktest(c)
          \/ RunInsertTrades(c)

SpecPair == InitPair /\ [][NextPair]_vars

\* ------------------------------------------------ reads of a stored run

\* The signals of the stored run: quiet bars, then a freely chosen tail.
StoredInputs(c) ==
    {[i \in 1..(k + Len(tail)) |->
         InputBar(c, i, IF i <= k THEN <<p, 0>> ELSE tail[i - k])] :
        p \in Prices, k \in {0, SkipBars}, tail \in SeqUpTo(RawBar, MaxTail)}

\* A runBacktest call of user 1 that has returned, having simulated the
\* signals `in` and stored the record under id 1.
StoredCall(c, in, cap) ==
    Return([NewCall(1, 1, <<1, Len(in) + 1>>, cap, DefaultParams) EXCEPT
               !.strategy   = [id |-> 1, name |-> "Moving Average Crossover"],
               !.sim        = simulateTrades(c, in, cap),
               !.backtestId = 1],
           1)

\* The database after the run, and a reader of either user before its
\* first statement.
InitRead ==
    /\ copy \in {1, 2}
    /\ clock = 0
    /\ significand = 0
    /\ \E in \in StoredInputs(copy), cap \in Capitals :
          /\ calls = <<StoredCall(copy, in, cap)>>
          /\ backtests = <<BacktestRow(copy, 1, calls[1])>>
          /\ backtestTrades =
                [i \in 1..Len(calls[1].sim.trades) |-> TradeRow(1, calls[1].sim.trades[i])]
    /\ nextId = 2
    /\ reader \in {NewReader(1, u) : u \in Users}
    /\ SimIdle
    /\ StratIdle

NextRead == ReadBacktest \/ ReadTrades \/ ListBacktests

SpecRead == InitRead /\ [][NextRead]_vars

\* ---------------------------------------------- views of the running call

Cash == IF copy = 1 THEN st.capital ELSE st.cash

Quantity == IF copy = 1 THEN st.position ELSE st.shares

Long == IF copy = 1 THEN st.position > 0 ELSE st.position = 1

\* The signal (1, -1, 0) and the price of the input element at position i.
InputSignal(i) ==
    IF copy = 1
    THEN (IF input[i].type = "BUY" THEN 1 ELSE IF input[i].type = "SELL" THEN -1 ELSE 0)
    ELSE input[i].signal

InputPrice(i) == IF copy = 1 THEN input[i].price ELSE input[i].close

\* ------------------------------------------------------------------ claims

\* C1: for positive prices and positive initialCapital, cash is >= 0 after
\* every processed bar and after the forced close, in both copies.
C1_CashNonNegative == Cash >= 0 /\ (pc = "done" => result.summary.finalCapital >= 0)

\* C1 witness: a BUY has spent cash and the run went on to its end.
C1_Witness == pc = "done" /\ Len(result.trades) >= 2 /\ Cash < initialCapital

\* C2: the returned summary has winningTrades + losingTrades = totalTrades.
C2_WinLossTotal ==
    pc = "done" =>
        result.summary.winningTrades + result.summary.losingTrades
            = result.summary.totalTrades

\* C2 witness: a finished run with a winning and a losing closed trade.
C2_Witness ==
    /\ pc = "done"
    /\ result.summary.winningTrades >= 1
    /\ result.summary.losingTrades >= 1

\* The trade log so far.
Trades == st.trades

\* C4: the trade log alternates BUY, SELL, BUY, ... starting with a BUY;
\* every SELL has the quantity of the BUY right before it; and when the run
\* has finished every BUY is followed by a SELL.
C4_TradesAlternate ==
    /\ \A i \in 1..Len(Trades) :
          /\ Trades[i].type = (IF i % 2 = 1 THEN "BUY" ELSE "SELL")
          /\ i % 2 = 0 => Trades[i].quantity = Trades[i - 1].quantity
    /\ pc \in {"summary", "done"} => Len(Trades) % 2 = 0

\* C4 witness: a finished run with two round trips, the last closed by force.
C4_Witness ==
    /\ pc = "done"
    /\ Len(result.trades) = 4
    /\ InputSignal(Len(input)) # -1

\* What a run records and returns: the trade log, the counters, the cash,
\* the equity curve and the maximum drawdown its peak update yields.
Recorded(c, s) ==
    IF c = 1
    THEN <<s.trades, s.winningTrades, s.totalTrades, s.capital,
           s.equityCurve, s.maxDrawdown>>
    ELSE <<s.trades, s.winningTrades, s.losingTrades, s.totalProfit, s.cash,
           s.equityCurve, s.maxDrawdown>>

\* What a SELL signal at the last element of the input does to the locals s.
SellAtLast(c, s, in) ==
    IF c = 1
    THEN Sim1Bar(s, [Last(in) EXCEPT !.type = "SELL"])
    ELSE Sim2Trade(s, [Last(in) EXCEPT !.signal = -1])

\* C5: when the input ends while the simulator is LONG, the forced close
\* sells the full quantity at the price of the last element and records what
\* a SELL signal at that element would have recorded: the SELL trade row
\* with profit = quantity * (price - entryPrice), the win/loss count, the
\* equity point and the peak / maxDrawdown update.
C5_ForcedCloseAsSell ==
    [][(pc = "close" /\ Long) =>
          /\ Len(st'.trades) = Len(st.trades) + 1
          /\ Last(st'.trades).type = "SELL"
          /\ Last(st'.trades).price = InputPrice(Len(input))
          /\ Last(st'.trades).quantity = Quantity
          /\ Last(st'.trades).profit
                = Some(Quantity * (InputPrice(Len(input)) - st.entryPrice))
          /\ Recorded(copy, st') = Recorded(copy, SellAtLast(copy, st, input))]_vars

\* C5 restricted to the second copy.
C5_ForcedCloseAsSell2 ==
    [][(pc = "close" /\ Long /\ copy = 2) =>
          Recorded(copy, st') = Recorded(copy, SellAtLast(copy, st, input))]_vars

\* The positions of the BUY and of the SELL signals of the input.
BuyAt == {i \in 1..Len(input) : InputSignal(i) = 1}

SellAt == {i \in 1..Len(input) : InputSignal(i) = -1}

\* C6: an input with exactly one BUY, at any position, with at least one
\* share affordable, and no SELL: the position is opened at that element and
\* force-closed at the end; totalTrades = 1 and the closing profit is non-null.
C6_SingleBuyForcedClose ==
    (/\ pc = "done"
     /\ Cardinality(BuyAt) = 1
     /\ SellAt = {}
     /\ \A i \in BuyAt : Floor(initialCapital, InputPrice(i)) >= 1)
    => /\ result.summary.totalTrades = 1
       /\ Len(result.trades) = 2
       /\ \A i \in BuyAt : result.trades[1].type = "BUY" /\ result.trades[1].date = i
       /\ result.trades[2].type = "SELL"
       /\ result.trades[2].price = InputPrice(Len(input))
       /\ result.trades[2].profit # Null

\* C6 restricted to the first copy.
C6_SingleBuyForcedClose1 == copy = 1 => C6_SingleBuyForcedClose

\* C7: an empty input returns totalTrades = 0, profit = 0, no trades and an
\* equity curve of exactly one point, whose equity is initialCapital.
C7_EmptyInput ==
    (pc = "done" /\ input = <<>>) =>
        /\ result.summary.totalTrades = 0
        /\ result.summary.profit = 0
        /\ result.trades = <<>>
        /\ Len(result.equityCurve) = 1
        /\ result.equityCurve[1].equity = initialCapital

\* C7 restricted to the first copy.
C7_EmptyInput1 == copy = 1 => C7_EmptyInput

\* The minimum lookback of a supported strategy: longPeriod for crossover,
\* period + 14 for RSI, slowPeriod + signalPeriod for MACD, period for
\* Bollinger, with the defaults of the second copy for absent keys.
Lookback(name, p) ==
    CASE name = "Moving Average Crossover" -> OrDefault(p.longPeriod, 21)
      [] name = "RSI Strategy" -> OrDefault(p.period, 14) + 14
      [] name = "MACD Strategy" -> OrDefault(p.slowPeriod, 26) + OrDefault(p.signalPeriod, 9)
      [] name = "Bollinger Bands Strategy" -> OrDefault(p.period, 20)

\* C3: for a candle sequence of length n >= 1 and a supported strategy,
\* applyStrategy returns exactly n signals, one per candle in candle order,
\* with HOLD for the bars before the strategy's lookback is satisfied.
C3_OneSignalPerCandle ==
    (apc \in {"returned", "thrown"} /\ Len(data) >= 1 /\ strategyName \in Supported)
    => /\ apc = "returned"
       /\ Len(aout.value) = Len(data)
       /\ \A i \in 1..Len(data) :
             /\ aout.value[i].time = data[i].time
             /\ aout.value[i].close = data[i].close
             /\ i < Lookback(strategyName, parameters) => aout.value[i].signal = 0

\* C3 restricted to the second copy.
C3_OneSignalPerCandle2 == copy = 2 => C3_OneSignalPerCandle

\* A second-copy call that returned a BUY or a SELL for some candle.
C3_Witness2 ==
    /\ copy = 2 /\ apc = "returned" /\ strategyName \in Supported
    /\ \E i \in 1..Len(data) : aout.value[i].signal # 0


\* The call c wrote no row: none of backtests and none of backtest_trades
\* carries the id its insert was given (0 before the insert).
NoRowsOf(c) ==
    /\ \A i \in 1..Len(backtests) : backtests[i].id # calls[c].backtestId
    /\ \A i \in 1..Len(backtestTrades) :
          backtestTrades[i].backtestId # calls[c].backtestId

\* C8: a runBacktest call whose initialCapital is not positive, or whose
\* startDate is not before its endDate, fails and leaves the store unchanged:
\* it never returns a result and writes no backtests and no backtest_trades
\* row.  (Any thrown error is taken for the failure the claim names.)
C8_InvalidParameterRejected ==
    \A c \in CallIds :
        (calls # <<>>
         /\ (calls[c].initialCapital <= 0 \/ calls[c].startDate >= calls[c].endDate))
        => (calls[c].pc # "returned" /\ NoRowsOf(c))

\* The errors applyStrategy throws for a name outside its switch.
UnknownStrategyErrors == {"Strategy not supported", "Strategy not implemented"}

\* C9: a strategy name that is not one of the supported names, applied to a
\* non-empty candle sequence, fails with an unknown-strategy error, and the
\* runBacktest call that selected it inserts no rows: once the call is past
\* fetchHistoricalData with candles, it has thrown that error.
C9_UnknownStrategyFails ==
    \A c \in CallIds :
        (calls # <<>>
         /\ calls[c].strategy # Null
         /\ calls[c].strategy.name \notin Supported
         /\ calls[c].pc \notin {"select", "fetch"}
         /\ calls[c].out # Err("No historical data available"))
        => (/\ calls[c].pc = "thrown"
            /\ calls[c].out.error \in UnknownStrategyErrors
            /\ NoRowsOf(c))

\* The backtest_trades rows of the complete trade list of the run that
\* wrote the backtests row id.
CompleteTradesOf(id) ==
    LET c == CHOOSE d \in CallIds : calls[d].backtestId = id
    IN  [i \in 1..Len(calls[c].sim.trades) |-> TradeRow(id, calls[c].sim.trades[i])]

\* C10: no reader observes a backtests record whose backtest_trades rows are
\* not the complete trade list of that run: what getBacktestDetails returns
\* with a record holds all the trade rows of the run that wrote the record.
C10_ReaderSeesCompleteRun ==
    (reader # <<>> /\ reader.pc = "returned" /\ reader.out.value # Null)
    => reader.out.value.trades = CompleteTradesOf(reader.out.value.backtest.id)

\* C10, the store itself: every backtests row has all its trade rows.
C10_RecordWithItsTrades ==
    \A i \in 1..Len(backtests) :
        TradesOf(backtestTrades, backtests[i].id) = CompleteTradesOf(backtests[i].id)

\* C11: runBacktest returns a result to its caller only if the insert into
\* backtests and every insert into backtest_trades succeeded: a returned
\* call has its record and all its trade rows in the database, and a call
\* that met a failed write ended in an error.
RowsOfCall(call) ==
    [i \in 1..Len(call.sim.trades) |-> TradeRow(call.backtestId, call.sim.trades[i])]

C11_ReturnOnlyAfterWrites ==
    \A c \in DOMAIN calls :
        /\ calls[c].pc = "returned" =>
              /\ \E i \in 1..Len(backtests) : backtests[i].id = calls[c].backtestId
              /\ TradesOf(backtestTrades, calls[c].backtestId) = RowsOfCall(calls[c])
        /\ (calls[c].out # <<>> /\ calls[c].out = Err("database error")) =>
              calls[c].pc = "thrown"

\* A call returned after writing its record and at least one trade row.
C11_Witness ==
    \E c \in DOMAIN calls :
        /\ calls[c].pc = "returned"
        /\ Len(calls[c].sim.trades) > 0
        /\ TradesOf(backtestTrades, calls[c].backtestId) = RowsOfCall(calls[c])

\* C12: the simulation result depends on nothing but the signals and
\* initialCapital: when a run has returned, running simulateTrades again on
\* the same input and the same capital gives the same summary, the same
\* trades and the same equity curve.
C12_SimulationIsPure ==
    pc = "done" => result = simulateTrades(copy, input, initialCapital)

\* The same for the second copy alone.
C12_SimulationIsPure2 ==
    (copy = 2 /\ pc = "done") => result = simulateTrades(copy, input, initialCapital)

\* What the call returns when it runs alone on the candles it fetched.
RunAlone(call) ==
    simulateTrades(copy,
                   applyStrategy(copy, call.strategy.name, call.historicalData,
                                 call.parameters).value,
                   call.initialCapital)

\* The result of a returned call, the assigned id left out.
Outcome(call) ==
    [summary     |-> call.out.value.summary,
     trades      |-> call.out.value.trades,
     equityCurve |-> call.out.value.equityCurve]

\* C12, for runBacktest: two calls with the same strategy, window, capital
\* and parameters that fetched the same candles return identical summaries,
\* trades and equity curves.
C12_SameCandlesSameResult ==
    (/\ calls[1].pc = "returned" /\ calls[2].pc = "returned"
     /\ calls[1].historicalData = calls[2].historicalData)
    => Outcome(calls[1]) = Outcome(calls[2])

\* C15: under any interleaving of two concurrent runBacktest calls, each
\* call returns the summary, trades and equity curve it returns when run
\* alone on the same candles, and every trade row a call persists carries
\* the id of the backtests record created by that same call.
C15_ConcurrentRunsIndependent ==
    /\ \A c \in PairIds :
          /\ calls[c].pc = "returned" => Outcome(calls[c]) = RunAlone(calls[c])
          /\ calls[c].backtestId # 0 =>
                /\ \E i \in 1..Len(backtests) :
                      backtests[i] = BacktestRow(copy, calls[c].backtestId, calls[c])
                /\ TradesOf(backtestTrades, calls[c].backtestId)
                      = SubSeq(RowsOfCall(calls[c]), 1, calls[c].saved)
    /\ (calls[1].backtestId # 0 /\ calls[2].backtestId # 0)
          => calls[1].backtestId # calls[2].backtestId
    /\ \A i \in 1..Len(backtestTrades) :
          \E c \in PairIds : /\ calls[c].backtestId # 0
                             /\ backtestTrades[i].backtestId = calls[c].backtestId

\* Both calls returned with different trades, the second call's record
\* having been inserted first.
C15_Witness ==
    /\ calls[1].pc = "returned" /\ calls[2].pc = "returned"
    /\ Len(calls[1].sim.trades) > 0 /\ Len(calls[2].sim.trades) > 0
    /\ calls[1].sim.trades # calls[2].sim.trades
    /\ calls[1].backtestId > calls[2].backtestId

\* C13: when the candle sequence is shorter than the minimum lookback of the
\* selected strategy, the strategy engine fails and runBacktest propagates
\* the failure: the call is thrown, not on its way to a result.
C13_ShortDataFails ==
    \A c \in DOMAIN calls :
        (/\ calls[c].historicalData # <<>>
         /\ calls[c].initialCapital > 0
         /\ calls[c].strategy.name \in Supported
         /\ Len(calls[c].historicalData)
               < Lookback(calls[c].strategy.name, calls[c].parameters))
        => calls[c].pc = "thrown"

\* The same for the first copy alone.
C13_ShortDataFails1 == copy = 1 => C13_ShortDataFails

\* The not-found outcome of getBacktestDetails: null in the first copy, the
\* "not found" error in the second.
NotFound ==
    IF copy = 1 THEN reader.pc = "returned" /\ reader.out = Ok(Null)
                ELSE reader.pc = "thrown" /\ reader.out = Err("Backtest not found")

\* The backtests table holds the record the reader asks for, owned by the
\* reader's user.
OwnRecordStored ==
    \E i \in 1..Len(backtests) :
        backtests[i].id = reader.backtestId /\ backtests[i].userId = reader.userId

\* C14: getBacktestDetails(backtestId, userId) never returns a record or
\* trade rows when the stored record belongs to another user or no such
\* record exists: the outcome is then the not-found outcome, and a record
\* that is returned is the one asked for, owned by the caller.
C14_DetailsOnlyForOwner ==
    (reader # <<>> /\ reader.pc \in {"returned", "thrown"})
    => /\ ~OwnRecordStored => NotFound
       /\ ~NotFound =>
             /\ reader.out.ok
             /\ reader.out.value.backtest.id = reader.backtestId
             /\ reader.out.value.backtest.userId = reader.userId
             /\ \A i \in 1..Len(reader.out.value.trades) :
                   reader.out.value.trades[i].backtestId = reader.backtestId

\* The record asked for is stored with trade rows, it belongs to the other
\* user, and the reader got the not-found outcome.
C14_Witness ==
    /\ reader # <<>> /\ NotFound
    /\ \E i \in 1..Len(backtests) :
          backtests[i].id = reader.backtestId /\ backtests[i].userId # reader.userId
    /\ TradesOf(backtestTrades, reader.backtestId) # <<>>

\* The call is past fetchHistoricalData.
Fetched(c) == calls[c].strategy # Null /\ calls[c].pc \notin {"select", "fetch"}

\* The market-data source gave the call no candle.
NoCandlesFromSource == ~getHistoricalData.ok \/ Len(getHistoricalData.value) = 0

C16_EmptyFetchFails ==
    \A c \in DOMAIN calls :
        (Fetched(c) /\ calls[c].historicalData = <<>>)
        => /\ calls[c].pc = "thrown"
           /\ calls[c].out = Err("No historical data available")
           /\ calls[c].sim = <<>>
           /\ NoRowsOf(c)

\* winRate as the spec defines it.
WinRateOf(summary) ==
    IF summary.totalTrades > 0
    THEN Frac(summary.winningTrades * 100, summary.totalTrades) ELSE Zero

\* C17: every summary the service returns, from runBacktest and from
\* getBacktestDetails, has winRate = winningTrades / totalTrades * 100 when
\* totalTrades > 0 and winRate = 0 when totalTrades = 0.
C17_WinRate ==
    /\ \A c \in DOMAIN calls :
          calls[c].pc = "returned" =>
              calls[c].out.value.summary.winRate = WinRateOf(calls[c].out.value.summary)
    /\ (reader.pc = "returned" /\ reader.out.value # Null
         /\ "summary" \in DOMAIN reader.out.value) =>
              reader.out.value.summary.winRate = WinRateOf(reader.out.value.summary)

\* The same for the summaries of runBacktest alone.
C17_WinRateOfRun ==
    \A c \in DOMAIN calls :
        calls[c].pc = "returned" =>
            calls[c].out.value.summary.winRate = WinRateOf(calls[c].out.value.summary)

\* The summary of the simulation of the returned signals with capital cap.
FlatSummary(cap) == simulateTrades(copy, aout.value, cap).summary

\* C18: on candles whose close price is constant, with any parameters, the
\* crossover and the RSI strategy emit only HOLD signals, and the simulation
\* of these signals has totalTrades = 0, finalCapital = initialCapital and
\* maxDrawdown = 0.
C18_FlatSeriesHolds ==
    (apc = "returned" /\ strategyName \in FlatStrategies
     /\ \A i \in 1..Len(data) : data[i].close = data[1].close)
    => /\ \A i \in 1..Len(aout.value) : aout.value[i].signal = 0
       /\ \A cap \in Capitals :
             /\ FlatSummary(cap).totalTrades = 0
             /\ FlatSummary(cap).finalCapital = cap
             /\ FlatSummary(cap).maxDrawdown = Zero

\* The same when the arithmetic is exact.
C18_FlatSeriesHoldsExact == significand = 0 => C18_FlatSeriesHolds

\* A step of the loop that processes a BUY signal while no position is open.
BuyWhileFlat == pc = "loop" /\ idx' = idx + 1 /\ InputSignal(idx) = 1 /\ ~Long

\* What the spec says such a step does: it buys floor(cash / price) shares,
\* pays for them and records the opening trade, or changes nothing when not
\* one share is affordable.
BuysAllAffordable ==
    IF Floor(Cash, InputPrice(idx)) = 0
    THEN Cash' = Cash /\ ~Long' /\ Quantity' = Quantity /\ st'.trades = st.trades
    ELSE /\ Quantity' = Floor(Cash, InputPrice(idx))
         /\ Cash' = Cash - Floor(Cash, InputPrice(idx)) * InputPrice(idx)
         /\ Long'
         /\ Len(st'.trades) = Len(st.trades) + 1
         /\ Last(st'.trades).type = "BUY"
         /\ Last(st'.trades).price = InputPrice(idx)
         /\ Last(st'.trades).quantity = Floor(Cash, InputPrice(idx))
         /\ Last(st'.trades).profit = Null

\* C19: a BUY signal processed while FLAT at price p with cash c buys
\* floor(c / p) shares, decreases cash by quantity * p and records an opening
\* BUY trade with profit = null; if floor(c / p) = 0, cash, position and the
\* trade log are unchanged.
C19_BuyWhileFlat == [][BuyWhileFlat => BuysAllAffordable]_vars

\* The same for the first copy alone.
C19_BuyWhileFlat1 == [][(copy = 1 /\ BuyWhileFlat) => BuysAllAffordable]_vars

\* The same for the second copy past the bars it skips.
C19_BuyWhileFlat2 ==
    [][(copy = 2 /\ idx > SkipBars /\ BuyWhileFlat) => BuysAllAffordable]_vars

\* The loop takes the element at idx while the position is as the signal
\* wants it already: a BUY while long, or a SELL while flat.
IgnoredSignal ==
    /\ pc = "loop"
    /\ idx' = idx + 1
    /\ \/ InputSignal(idx) = 1 /\ Long
       \/ InputSignal(idx) = -1 /\ ~Long

\* The closed trades counted so far as won and as lost.
Counters ==
    IF copy = 1 THEN <<st.winningTrades, st.totalTrades - st.winningTrades>>
                ELSE <<st.winningTrades, st.losingTrades>>

\* What the signal may change: cash, quantity, entry price, position state,
\* trade log, counters.
Book == <<Cash, Quantity, st.entryPrice, st.position, Long, Trades, Counters>>

\* C20: a BUY processed while LONG and a SELL processed while FLAT leave the
\* cash, the quantity held, entryPrice, the position state, the trade log
\* and the winning/losing counters as they were.
C20_IgnoredSignal == [][IgnoredSignal => Book' = Book]_vars

\* The date of the input element at position i.
InputDate(i) == IF copy = 1 THEN input[i].date ELSE input[i].time

\* C20 witness: past the skipped bars the loop has just taken a BUY while
\* holding shares bought at an earlier bar, and the cash could have paid for
\* another share.
C20_Witness ==
    /\ pc = "loop"
    /\ idx > SkipBars + 2
    /\ InputSignal(idx - 1) = 1
    /\ Long
    /\ Len(Trades) = 1
    /\ Last(Trades).date # InputDate(idx - 1)
    /\ Cash >= InputPrice(idx - 1)

\* C20 witness, the other case: past the skipped bars the loop has just
\* taken a SELL while flat, after a round trip.
C20_WitnessSell ==
    /\ pc = "loop"
    /\ idx > SkipBars + 3
    /\ InputSignal(idx - 1) = -1
    /\ ~Long
    /\ Len(Trades) = 2
    /\ Last(Trades).date # InputDate(idx - 1)

\* The loop takes a SELL at idx while a position is open.
SellWhileLong == pc = "loop" /\ idx' = idx + 1 /\ InputSignal(idx) = -1 /\ Long

\* quantity * (sellPrice - entryPrice) for a sale of what is held at idx.
SaleProfit == Quantity * (InputPrice(idx) - st.entryPrice)

\* What the spec says such a step does: a closing SELL trade of the held
\* quantity with that profit, the proceeds added to cash, the position flat,
\* and the trade counted as won when the profit is positive, as lost if not.
ClosesPosition ==
    /\ Len(Trades') = Len(Trades) + 1
    /\ SubSeq(Trades', 1, Len(Trades)) = Trades
    /\ Last(Trades').type = "SELL"
    /\ Last(Trades').price = InputPrice(idx)
    /\ Last(Trades').quantity = Quantity
    /\ Last(Trades').profit = Some(SaleProfit)
    /\ Cash' = Cash + Quantity * InputPrice(idx)
    /\ ~Long'
    /\ Quantity' = 0
    /\ Counters' = IF SaleProfit > 0
                   THEN <<Counters[1] + 1, Counters[2]>>
                   ELSE <<Counters[1], Counters[2] + 1>>

\* C21: a SELL processed while LONG records a closing SELL trade of the
\* held quantity q with profit q * (s - e), adds q * s to cash, leaves the
\* position FLAT with quantity 0, and counts the trade as winning iff the
\* profit is > 0 and as losing otherwise.
C21_SellWhileLong == [][SellWhileLong => ClosesPosition]_vars

\* C21 witness: the loop has just sold at the entry price: a closed trade
\* with profit 0, counted as lost.
C21_Witness ==
    /\ pc = "loop"
    /\ idx > 1
    /\ Len(Trades) = 2
    /\ Last(Trades).type = "SELL"
    /\ Last(Trades).date = InputDate(idx - 1)
    /\ Last(Trades).profit = Some(0)
    /\ Counters = <<0, 1>>
    /\ ~Long

\* The loop takes the element at idx.
TakesBar == pc = "loop" /\ idx' = idx + 1

\* The equity curve so far.
EquityCurve == st.equityCurve

\* The position at idx marked to the price of that element.
MarkToMarket == IF Long THEN Cash + Quantity * InputPrice(idx) ELSE Cash

\* One equity point is appended for the element at idx, with that value.
AppendsEquityPoint ==
    /\ Len(EquityCurve') = Len(EquityCurve) + 1
    /\ SubSeq(EquityCurve', 1, Len(EquityCurve)) = EquityCurve
    /\ Last(EquityCurve').date = InputDate(idx)
    /\ Last(EquityCurve').equity = MarkToMarket

\* C22: every bar of the input appends exactly one equity point, in bar
\* order, whose equity is cash + quantity * close of that bar while LONG and
\* cash while FLAT.
C22_EquityPointPerBar == [][TakesBar => AppendsEquityPoint]_vars

\* The same for the second copy past the bars it skips.
C22_EquityPointPerBar2 ==
    [][(copy = 2 /\ idx > SkipBars /\ TakesBar) => AppendsEquityPoint]_vars

\* The same for the bars at which the first copy trades.
C22_EquityPointPerTrade1 ==
    [][(copy = 1 /\ TakesBar /\ Trades' # Trades) => AppendsEquityPoint]_vars

\* The largest (peak - equity) / peak * 100 over the points i.. of a curve,
\* given the running peak and the largest drawdown before point i.
RECURSIVE CurveDrawdown(_, _, _, _)
CurveDrawdown(curve, i, peak, worst) ==
    IF i > Len(curve) THEN worst
    ELSE LET top  == IF curve[i].equity > peak THEN curve[i].equity ELSE peak
             here == Frac((top - curve[i].equity) * 100, top)
         IN  CurveDrawdown(curve, i + 1, top, IF RatGT(here, worst) THEN here ELSE worst)

\* Two fractions with positive denominators are the same number.
SameNumber(a, b) == a[1] * b[2] = b[1] * a[2]

\* C23: the reported maxDrawdown is the largest drawdown from the running
\* peak (starting at initialCapital) over the points of the returned equity
\* curve, and 0 when the equity never falls below its running peak.
C23_MaxDrawdown ==
    pc = "done" =>
        SameNumber(result.summary.maxDrawdown,
                   CurveDrawdown(result.equityCurve, 1, initialCapital, Zero))

\* The same for the second copy alone.
C23_MaxDrawdown2 == copy = 2 => C23_MaxDrawdown

\* BUY when the RSI was at or below oversold and is above it now, SELL when
\* it was at or above overbought and is below it now.
RsiCrossBack(rsiValues, overbought, oversold) ==
    LET currentRSI  == At(rsiValues, Len(rsiValues) - 1)
        previousRSI == At(rsiValues, Len(rsiValues) - 2)
    IN  IF RLe(previousRSI, R(oversold)) /\ RGt(currentRSI, R(oversold)) THEN 1
        ELSE IF RGe(previousRSI, R(overbought)) /\ RLt(currentRSI, R(overbought)) THEN -1
        ELSE 0

\* The loop of applyStrategy has just called rsiStrategy on the candles up
\* to the last signal, and these were enough for an RSI at the previous bar.
RsiApplied ==
    /\ copy = 2
    /\ strategyName = "RSI Strategy"
    /\ apc = "loop"
    /\ Len(signals) > MinSignalIndex
    /\ Len(signals) >= OrDefault(parameters.period, 14) + 14

\* C24: rsiStrategy gives BUY for a bar exactly when the RSI of the previous
\* bar was <= oversold and the RSI of the bar is > oversold, SELL exactly
\* when the RSI of the previous bar was >= overbought and the RSI of the bar
\* is < overbought, and no signal otherwise.
C24_RsiCrossBack ==
    RsiApplied =>
        Last(signals) = RsiCrossBack(calculateRSI(Closes(SubSeq(data, 1, Len(signals))),
                                                  OrDefault(parameters.period, 14)),
                                     OrDefault(parameters.overbought, 70),
                                     OrDefault(parameters.oversold, 30))

\* The loop of applyStrategy has just called movingAverageCrossover on the
\* candles up to the last signal, at least longPeriod of them.
CrossoverApplied ==
    /\ copy = 2
    /\ strategyName = "Moving Average Crossover"
    /\ apc = "loop"
    /\ Len(signals) > MinSignalIndex
    /\ Len(signals) >= OrDefault(parameters.longPeriod, 21)

\* The short and the long EMA of the candles up to the last signal.
ShortEMA ==
    calculateEMA(Closes(SubSeq(data, 1, Len(signals))), OrDefault(parameters.shortPeriod, 9))

LongEMA ==
    calculateEMA(Closes(SubSeq(data, 1, Len(signals))), OrDefault(parameters.longPeriod, 21))

\* The EMA series e has a value k bars before its last one.
HasValue(e, k) == At(e, Len(e) - 1 - k) # NaN

\* A BUY only on a cross from short <= long, both known, to short > long.
BuyOnlyOnCrossUp(short, long) ==
    Last(signals) = 1 =>
        /\ HasValue(short, 1) /\ HasValue(long, 1)
        /\ RLe(At(short, Len(short) - 2), At(long, Len(long) - 2))
        /\ RGt(At(short, Len(short) - 1), At(long, Len(long) - 1))

\* A SELL only on a cross from short >= long to short < long.
SellOnlyOnCrossDown(short, long) ==
    Last(signals) = -1 =>
        /\ RGe(At(short, Len(short) - 2), At(long, Len(long) - 2))
        /\ RLt(At(short, Len(short) - 1), At(long, Len(long) - 1))

\* C25: movingAverageCrossover gives BUY only when both EMAs have a value at
\* the previous bar, short EMA <= long EMA there and short EMA > long EMA at
\* the current bar, and SELL only when short EMA >= long EMA at the previous
\* bar and short EMA < long EMA at the current bar, for every data length
\* >= longPeriod.
C25_CrossoverSignal ==
    CrossoverApplied => BuyOnlyOnCrossUp(ShortEMA, LongEMA) /\ SellOnlyOnCrossDown(ShortEMA, LongEMA)

\* The same for data longer than longPeriod.
C25_CrossoverSignalLonger ==
    (CrossoverApplied /\ Len(signals) > OrDefault(parameters.longPeriod, 21))
    => BuyOnlyOnCrossUp(ShortEMA, LongEMA) /\ SellOnlyOnCrossDown(ShortEMA, LongEMA)

\* The loop of applyStrategy has just called macdStrategy on the candles up
\* to the last signal, at least slowPeriod + signalPeriod of them, with
\* fastPeriod < slowPeriod.
MacdApplied ==
    /\ copy = 2
    /\ strategyName = "MACD Strategy"
    /\ apc = "loop"
    /\ Len(signals) > MinSignalIndex
    /\ OrDefault(parameters.fastPeriod, 12) < OrDefault(parameters.slowPeriod, 26)
    /\ Len(signals) >= OrDefault(parameters.slowPeriod, 26)
                       + OrDefault(parameters.signalPeriod, 9)

\* The prices calculateMACD was given, and its two EMAs.
MacdPrices == Closes(SubSeq(data, 1, Len(signals)))

FastEMA == calculateEMA(MacdPrices, OrDefault(parameters.fastPeriod, 12))

SlowEMA == calculateEMA(MacdPrices, OrDefault(parameters.slowPeriod, 26))

\* macdLine is the fast EMA minus the slow EMA at each bar of the slow EMA.
MacdLineAligned(macdLine, fastEMA, slowEMA) ==
    /\ Len(macdLine) = Len(slowEMA)
    /\ \A i \in 1..Len(macdLine) :
          /\ macdLine[i] # NaN
          /\ macdLine[i] = RSub(fastEMA[i + (Len(fastEMA) - Len(slowEMA))], slowEMA[i])

\* histogram is macdLine minus signalLine at each bar of signalLine.
HistogramAligned(m) ==
    /\ Len(m.histogram) = Len(m.signalLine)
    /\ \A i \in 1..Len(m.histogram) :
          m.histogram[i]
              = RSub(At(m.macdLine, (i - 1) + (Len(m.macdLine) - Len(m.signalLine))),
                     m.signalLine[i])

\* What the spec says of the object m that calculateMACD returns.
MacdAsSpecified(m, signalPeriod) ==
    /\ MacdLineAligned(m.macdLine, FastEMA, SlowEMA)
    /\ m.signalLine = calculateEMA(m.macdLine, signalPeriod)
    /\ HistogramAligned(m)

\* C26: for fast < slow and at least slow + signal prices, macdLine has one
\* defined value per bar of the slow EMA, the fast EMA minus the slow EMA at
\* that bar; signalLine is the EMA of macdLine; each histogram value is
\* macdLine minus signalLine at the same bar.
C26_MacdLines ==
    MacdApplied =>
        MacdAsSpecified(calculateMACD(MacdPrices,
                                      OrDefault(parameters.fastPeriod, 12),
                                      OrDefault(parameters.slowPeriod, 26),
                                      OrDefault(parameters.signalPeriod, 9)),
                        OrDefault(parameters.signalPeriod, 9))

\* The last values of macdLine, as many as the slow EMA has, are the fast
\* EMA minus the slow EMA at the same bar.
C26_MacdLineTail ==
    MacdApplied =>
        LET macdLine == MacdLine(FastEMA, SlowEMA)
        IN  MacdLineAligned(SubSeq(macdLine, Len(macdLine) - Len(SlowEMA) + 1, Len(macdLine)),
                            FastEMA, SlowEMA)

RECURSIVE ProfitSum(_, _)
ProfitSum(trades, n) ==
    IF n = 0 THEN 0
    ELSE ProfitSum(trades, n - 1)
         + (IF trades[n].profit = Null THEN 0 ELSE trades[n].profit[1])

\* The profit per closed trade of a returned result, 0 when there is none.
ProfitPerTrade(r) ==
    IF r.summary.totalTrades > 0
    THEN Frac(ProfitSum(r.trades, Len(r.trades)), r.summary.totalTrades)
    ELSE Zero

\* C28: after any prefix of the input, cash + quantity * entryPrice is the
\* initial capital plus the profits of the closing trades so far; at the
\* end finalCapital - initialCapital is the sum of the closing trades'
\* profits, and avgTradeProfit, computed from the profit in the first copy
\* and from totalProfit in the second, is that sum over totalTrades.
C28_CashAccounting ==
    /\ pc = "loop" =>
          Cash + Quantity * st.entryPrice
              = initialCapital + ProfitSum(Trades, Len(Trades))
    /\ pc = "done" =>
          /\ result.summary.finalCapital - initialCapital
                 = ProfitSum(result.trades, Len(result.trades))
          /\ result.summary.profit = ProfitSum(result.trades, Len(result.trades))
          /\ SameNumber(result.summary.avgTradeProfit, ProfitPerTrade(result))

\* C28 witness: a finished run with two closed trades, one lost and one
\* won, whose profits do not cancel.
C28_Witness ==
    /\ pc = "done"
    /\ result.summary.totalTrades = 2
    /\ result.trades[2].profit[1] < 0
    /\ result.trades[4].profit[1] > 0
    /\ ProfitSum(result.trades, 4) # 0

\* C29: when the returned equity curve is non-empty, the equity of its last
\* point is summary.finalCapital.
C29_LastEquityIsFinalCapital ==
    (pc = "done" /\ Len(result.equityCurve) > 0)
    => Last(result.equityCurve).equity = result.summary.finalCapital

\* C29 witness: a finished run whose position, opened at another price, was
\* closed by force at the last bar.
C29_Witness ==
    /\ pc = "done"
    /\ Len(result.trades) = 2
    /\ InputSignal(Len(input)) # -1
    /\ Last(result.trades).date = InputDate(Len(input))
    /\ result.summary.finalCapital # initialCapital
    /\ Len(result.equityCurve) > 1

\* The call c has run simulateTrades of the second copy.
Simulated2(c) == copy = 2 /\ calls # <<>> /\ calls[c].sim # <<>>

\* The times of the candles with index MinSignalIndex and more.
SignalTimes(candles) == {candles[i].time : i \in (MinSignalIndex + 1)..Len(candles)}

\* C30: in the second copy no trade is made at a bar with index < 30, so
\* a runBacktest on at most 30 candles has no trade, totalTrades = 0 and
\* finalCapital = initialCapital.
C30_NoTradeBeforeWarmUp ==
    \A c \in CallIds :
        Simulated2(c) =>
            /\ \A i \in 1..Len(calls[c].sim.trades) :
                  calls[c].sim.trades[i].date \in SignalTimes(calls[c].historicalData)
            /\ Len(calls[c].historicalData) <= MinSignalIndex =>
                  /\ calls[c].sim.trades = <<>>
                  /\ calls[c].sim.summary.totalTrades = 0
                  /\ calls[c].sim.summary.finalCapital = calls[c].initialCapital

\* C30 witness: a second-copy run on exactly 30 candles whose closes are
\* not all the same has returned without a trade.
C30_Witness ==
    /\ copy = 2
    /\ calls[1].pc = "returned"
    /\ Len(calls[1].historicalData) = MinSignalIndex
    /\ \E i \in 1..MinSignalIndex :
          calls[1].historicalData[i].close # calls[1].historicalData[1].close
    /\ calls[1].sim.summary.totalTrades = 0
    /\ Len(backtests) = 1

\* A second-copy run on more than 30 candles that traded.
C30_TradedAfterWarmUp ==
    /\ copy = 2
    /\ calls[1].pc = "returned"
    /\ Len(calls[1].historicalData) > MinSignalIndex
    /\ calls[1].sim.summary.totalTrades > 0

====
